---- MODULE Spec2Model ----
(***************************************************************************)
(* TEE oracle bridge (0xAkuti/TeeApi, src/tee).                            *)
(*                                                                         *)
(* Spec        the chain bridge: oracle_loop (main.py) driving            *)
(*             BlockchainService.initialize / poll_events /                *)
(*             submit_response (services/blockchain.py) against a chain    *)
(*             that grows and emits RestApiRequest events.                 *)
(* FairSpec    the same machine with the asyncio worker always scheduled.  *)
(* ExtractSpec ResponseProcessor._extract_data                             *)
(*             (services/response_processor.py) applied to bounded inputs. *)
(***************************************************************************)
EXTENDS Integers, Sequences, FiniteSets, TLC

VARIABLES
    \* ---- the chain (environment) ----
    height,                 \* current chain height
    chainEvents,            \* emitted RestApiRequest logs, ascending block order
    mined,                  \* transaction count of the oracle account (mined txs)
    \* ---- BlockchainService fields ----
    initialized,            \* self.initialized
    last_processed_block,   \* self.last_processed_block (the cursor)
    initCursor,             \* the cursor recorded by initialize()
    \* ---- oracle_loop / poll_events position ----
    pc,                     \* position of the poll worker
    current_block,          \* poll_events local: height read at the cycle start
    events,                 \* poll_events local: the logs returned for the range
    idx,                    \* poll_events local: position of the for loop
    \* ---- per-cycle observations ----
    cycleStart,             \* the cursor at the start of the cycle
    cycleQueried,           \* a log query was made in this cycle
    cycleInvoked,           \* callbacks invoked in this cycle, in order
    cycleOverlap,           \* a callback started while another was in flight
    \* ---- process_event / submit_response per event ----
    pstate,                 \* position of the pipeline of each event
    invoked,                \* number of callback invocations per event
    sent,                   \* number of fulfill transactions broadcast per event
    broadcast,              \* the transactions broadcast, in order: event and nonce
    raised,                 \* events whose submit_response raised to its caller
    timedOut,               \* events whose confirmation wait timed out
    tx,                     \* the transaction being built / awaited
    waited,                 \* seconds spent in wait_for_transaction_receipt
    \* ---- _extract_data applied to bounded inputs ----
    exPc,
    exFields,
    exResp,
    exOut,
    \* ---- _encode_data applied to bounded inputs ----
    enPc,
    enData,                 \* the ExtractedData handed to _encode_data
    enOut,                  \* what _encode_data returned
    \* ---- process_event applied to one request (main.py 41-59) ----
    rqPc,                   \* position in process_event
    rqReq,                  \* event.request, as decoded from the log
    rqOut,                  \* make_request's local: the processed request
    rqLog,                  \* the decrypt_from_contract calls made, in order
    rqCalls,                \* HTTP calls issued
    rqOutcome,              \* how the HTTP call ended
    rqResp,                 \* the ApiResponse make_request returned
    rqPayload,              \* processed_response.encoded_data
    rqSubmit,               \* the submit_response call process_event made
    \* ---- BlockchainService configuration and what initialize did ----
    provider_url,           \* self.provider_url ("" when missing)
    oracle_address,         \* self.oracle_address ("" when missing)
    reads,                  \* chain reads made by initialize
    pubkeyCheck,            \* outcome of initialize's public key comparison
    initHeight,             \* the chain height when initialize read it
    \* ---- _verify_condition on one field and one value ----
    vcPc,                   \* "off", "ready", "done"
    vcField,                \* the ResponseField with its condition
    vcValue,                \* the value extracted for it
    vcOut,                  \* what _verify_condition gave back
    \* ---- the CryptoManager singleton (utils/crypto.py) ----
    crypto_manager,         \* its _private_key, _public_key, _address, _initialized
    cmCall,                 \* the last direct call on it, with its outcome
    cmDerived,              \* derive_key calls made by initialize calls that returned
    \* ---- the ApiServer (services/api_server.py) ----
    apiResp                 \* the last HTTP response of a route handler

bridgeVars == <<height, chainEvents, mined, initialized, last_processed_block,
                initCursor, pc, current_block, events, idx, cycleStart,
                cycleQueried, cycleInvoked, cycleOverlap, pstate, invoked, sent,
                broadcast,
                raised, timedOut, tx, waited>>

extractVars == <<exPc, exFields, exResp, exOut>>

encodeVars == <<enPc, enData, enOut>>

requestVars == <<rqPc, rqReq, rqOut, rqLog, rqCalls, rqOutcome, rqResp, rqPayload,
                 rqSubmit>>

conditionVars == <<vcPc, vcField, vcValue, vcOut>>

\* The variables of the pipeline functions run on their own inputs.
offlineVars == <<extractVars, encodeVars, requestVars, conditionVars>>

configVars == <<provider_url, oracle_address>>

initVars == <<reads, pubkeyCheck, initHeight>>

codecVars == <<crypto_manager, cmCall, cmDerived>>

apiVars == <<apiResp>>

\* What the poll cycle and the pipeline never write.
serviceVars == <<configVars, codecVars, apiVars>>

vars == <<bridgeVars, offlineVars, serviceVars, initVars>>

(***************************************************************************)
(* Bounds of the model.                                                    *)
(***************************************************************************)
MaxHeight == 3

MaxEvents == 2

MaxSmallGas == 3

WaitStep == 30

(***************************************************************************)
(* Program constants.                                                      *)
(***************************************************************************)
ReceiptTimeout == 60

PriorityCapWei == 100000000

EventIds == 1..MaxEvents

\* Base fees read from the node: small ones (truncation to 0 and 1) and ones
\* around the point where 80% of the base fee crosses the 0.1 gwei cap.
GasPrices == (1..MaxSmallGas) \cup {124999999, 125000001, 170000000}

NoTx == [id |-> 0, base |-> 0, maxFee |-> 0, prio |-> 0, nonce |-> 0]

Running == {"fetch", "process", "build", "send", "wait"}


(***************************************************************************)
(* The chain.                                                              *)
(***************************************************************************)
\* A new block is mined; it holds no request log, or one. A log whose request
\* tuple does not validate as RequestData (e.g. method = 7, outside HttpMethod)
\* is one whose decoding raises: decodable = FALSE.
ChainAdvance ==
    /\ height < MaxHeight
    /\ height' = height + 1
    /\ \/ UNCHANGED chainEvents
       \/ /\ Len(chainEvents) < MaxEvents
          /\ \E d \in BOOLEAN :
                chainEvents' = Append(chainEvents,
                                      [block |-> height + 1, decodable |-> d])
    /\ UNCHANGED <<mined, initialized, last_processed_block, initCursor, pc,
                   current_block, events, idx, cycleStart, cycleQueried,
                   cycleInvoked, cycleOverlap, pstate, invoked, sent,
                   broadcast, raised,
                   timedOut, tx, waited>>
    /\ UNCHANGED <<offlineVars, serviceVars, initVars>>

\* contract.events.RestApiRequest.get_logs(from_block, to_block): the ids of
\* the logs of the blocks from_block..to_block, in ascending block order.
RECURSIVE LogsFrom(_, _, _)
LogsFrom(i, from_block, to_block) ==
    IF i > Len(chainEvents) THEN <<>>
    ELSE IF /\ chainEvents[i].block >= from_block
            /\ chainEvents[i].block <= to_block
         THEN <<i>> \o LogsFrom(i + 1, from_block, to_block)
         ELSE LogsFrom(i + 1, from_block, to_block)

get_past_events(from_block, to_block) == LogsFrom(1, from_block, to_block)

(***************************************************************************)
(* BlockchainService.initialize, called by oracle_loop before the loop.    *)
(***************************************************************************)
\* An initialize that goes on without looking at its configuration.
ConfigUnchecked(url, address) == TRUE

\* lines 55-59: a missing provider URL or oracle address raises ValueError.
ConfigValid(url, address) == url # "" /\ address # ""

\* A cursor that starts at the genesis block.
InitialCursorZero(block_number) == 0

\* line 72: self.last_processed_block = await self.web3.eth.block_number
InitialCursor(block_number) == block_number

\* What the contract's getPublicKey() call gives: a key, or an exception.
PublishedKeys == {"0xP1", "0xP2", "<raises>"}

\* lines 77-83: the published key is compared with the manager's own; an
\* exception of the call is caught.
PubkeyCompare(published, own) ==
    IF published = "<raises>" THEN "raises"
    ELSE IF published # own THEN "mismatch"
    ELSE "match"

\* An initialize that raises unless the keys agree.
PubkeyCheckStrict(check) == check = "match"

\* lines 78-83: a mismatch is logged as an error, a failure of the call as
\* critical; neither raises, and line 85 follows.
PubkeyCheckPasses(check) == TRUE

initialize ==
    /\ pc = "init"
    /\ ~initialized
    /\ \/ \* lines 55-59: ValueError, re-raised by oracle_loop (lines 75-77)
          /\ ~ConfigValid(provider_url, oracle_address)
          /\ pc' = "fatal"
          /\ UNCHANGED <<initialized, last_processed_block, initCursor,
                         initVars>>
       \/ /\ ConfigValid(provider_url, oracle_address)
          /\ \E published \in PublishedKeys :
                LET check == PubkeyCompare(published, crypto_manager.public_key)
                IN  /\ last_processed_block' = InitialCursor(height)
                    /\ initCursor' = InitialCursor(height)
                    /\ initHeight' = height
                    /\ reads' = 2
                    /\ pubkeyCheck' = check
                    /\ initialized' = PubkeyCheckPasses(check)
                    /\ pc' = IF PubkeyCheckPasses(check) THEN "poll" ELSE "fatal"
       \/ \* the block_number read raises: fatal, oracle_loop re-raises
          /\ ConfigValid(provider_url, oracle_address)
          /\ pc' = "fatal"
          /\ reads' = 1
          /\ UNCHANGED <<initialized, last_processed_block, initCursor,
                         pubkeyCheck, initHeight>>
    /\ UNCHANGED <<height, chainEvents, mined, current_block, events, idx,
                   cycleStart, cycleQueried, cycleInvoked, cycleOverlap, pstate,
                   invoked, sent, broadcast, raised, timedOut, tx, waited>>
    /\ UNCHANGED <<offlineVars, serviceVars>>

(***************************************************************************)
(* BlockchainService.poll_events                                           *)
(***************************************************************************)
\* The test of line 148 with < in place of <=.
NoNewBlocksLt(current, last) == current < last

\* A cycle that goes on whatever height it read.
AlwaysNewBlocks(current, last) == FALSE

\* line 148: if current_block <= self.last_processed_block: return
NoNewBlocks(current, last) == current <= last

\* A cycle that ends without moving the cursor.
CursorKept(current, last) == last

\* line 164: self.last_processed_block = current_block
CursorAfterCycle(current, last) == current

\* A log query that starts at the cursor itself.
FromBlockInclusive(last) == last

\* line 153: the query starts at self.last_processed_block + 1.
FromBlock(last) == last + 1

\* A failed cycle that still moves the cursor to the height it read.
CursorMovedOnRaise(current, last) == current

\* An exception of the height read (147) or of get_logs (153) leaves
\* poll_events before line 164: the cursor keeps its value.
CursorAfterRaise(current, last) == last

\* An initialize that runs its body on every call.
InitializeAgain(is_initialized, cursor, block_number) ==
    InitialCursor(block_number)

\* "if not self.initialized: await self.initialize()" (lines 94-95, 144-145,
\* 168-169) and the early return of initialize (49-50): the cursor after the
\* call.
LazyInitialize(is_initialized, cursor, block_number) ==
    IF is_initialized THEN cursor ELSE InitialCursor(block_number)

\* A callback started without being awaited (fire and forget).
CallbackNotAwaited(e) == TRUE

\* line 159: await callback(request_event): the loop resumes only when the
\* callback's coroutine has finished.
CallbackAwaited(e) == pstate[e] \notin Running

\* lines 144-150: read the height; return when there is no new block.
PollStart ==
    /\ pc = "poll"
    /\ initialized
    /\ cycleQueried' = FALSE
    /\ cycleInvoked' = <<>>
    /\ cycleOverlap' = FALSE
    /\ events' = <<>>
    /\ idx' = 1
    /\ LET cursor == LazyInitialize(initialized, last_processed_block, height)
       IN  /\ cycleStart' = cursor
           /\ \/ \E h \in {height} \cup {x \in {height - 1} : x >= 0} :
                    /\ current_block' = h
                    /\ pc' = IF NoNewBlocks(h, cursor) THEN "sleep" ELSE "getlogs"
                    /\ last_processed_block' = cursor
              \/ \* the block_number read raises: caught by oracle_loop
                 \* (main.py 72)
                 /\ current_block' = current_block
                 /\ pc' = "error_sleep"
                 /\ last_processed_block' = CursorAfterRaise(height, cursor)
    /\ UNCHANGED <<height, chainEvents, mined, initialized, initCursor, pstate,
                   invoked, sent, broadcast, raised, timedOut, tx, waited>>
    /\ UNCHANGED <<offlineVars, serviceVars, initVars>>

\* line 153: events = await self.get_past_events(cursor + 1, current_block)
PollGetLogs ==
    /\ pc = "getlogs"
    /\ LET cursor == LazyInitialize(initialized, last_processed_block, height)
       IN  \/ /\ events' = get_past_events(FromBlock(cursor), current_block)
              /\ cycleQueried' = TRUE
              /\ pc' = "loop"
              /\ last_processed_block' = cursor
           \/ \* get_logs raises: caught by oracle_loop (main.py 72)
              /\ cycleQueried' = TRUE
              /\ pc' = "error_sleep"
              /\ last_processed_block' = CursorAfterRaise(current_block, cursor)
              /\ UNCHANGED events
    /\ UNCHANGED <<height, chainEvents, mined, initialized, initCursor,
                   current_block, idx,
                   cycleStart, cycleInvoked, cycleOverlap, pstate, invoked,
                   sent, broadcast, raised, timedOut, tx, waited>>
    /\ UNCHANGED <<offlineVars, serviceVars, initVars>>

\* lines 156-161: one iteration of the for loop: decode the log and start the
\* callback, or catch the decoding error and go on with the next log.
PollNextEvent ==
    /\ pc = "loop"
    /\ idx <= Len(events)
    /\ idx > 1 => CallbackAwaited(events[idx - 1])
    /\ LET e == events[idx] IN
          IF chainEvents[e].decodable
          THEN /\ pstate' = [pstate EXCEPT ![e] = "fetch"]
               /\ invoked' = [invoked EXCEPT ![e] = @ + 1]
               /\ cycleInvoked' = Append(cycleInvoked, e)
               /\ cycleOverlap' =
                     (cycleOverlap \/ \E o \in EventIds : pstate[o] \in Running)
          ELSE UNCHANGED <<pstate, invoked, cycleInvoked, cycleOverlap>>
    /\ idx' = idx + 1
    /\ UNCHANGED <<height, chainEvents, mined, initialized,
                   last_processed_block, initCursor, pc, current_block, events,
                   cycleStart, cycleQueried, sent,
                   broadcast, raised, timedOut, tx, waited>>
    /\ UNCHANGED <<offlineVars, serviceVars, initVars>>

\* line 164: after the loop the cursor moves to the height read at the start.
PollFinish ==
    /\ pc = "loop"
    /\ idx > Len(events)
    /\ idx > 1 => CallbackAwaited(events[idx - 1])
    /\ last_processed_block' =
          CursorAfterCycle(current_block, last_processed_block)
    /\ pc' = "sleep"
    /\ UNCHANGED <<height, chainEvents, mined, initialized, initCursor,
                   current_block, events, idx, cycleStart, cycleQueried,
                   cycleInvoked, cycleOverlap, pstate, invoked, sent,
                   broadcast, raised,
                   timedOut, tx, waited>>
    /\ UNCHANGED <<offlineVars, serviceVars, initVars>>

\* A loop that goes on only after a cycle that raised nothing.
SleepsAfterSuccess(position) == position = "sleep"

\* oracle_loop lines 68 and 72-74: the loop sleeps after a cycle and, in the
\* handler of "except Exception", after a cycle that raised.
SleepsAfter(position) == position \in {"sleep", "error_sleep"}

\* oracle_loop lines 68 and 74: asyncio.sleep, then the next cycle.
Sleep ==
    /\ SleepsAfter(pc)
    /\ pc' = "poll"
    /\ UNCHANGED <<height, chainEvents, mined, initialized,
                   last_processed_block, initCursor, current_block, events, idx,
                   cycleStart, cycleQueried, cycleInvoked, cycleOverlap, pstate,
                   invoked, sent, broadcast, raised, timedOut, tx, waited>>
    /\ UNCHANGED <<offlineVars, serviceVars, initVars>>

(***************************************************************************)
(* oracle_loop.process_event (main.py 41-59) and                           *)
(* BlockchainService.submit_response (blockchain.py 166-228)               *)
(***************************************************************************)
\* line 192: min(Web3.to_wei(0.1, 'gwei'), int(gas_price * 0.8)).  For base
\* fees below 2^53 the double product truncates to the integer quotient.
Min(a, b) == IF a <= b THEN a ELSE b

PriorityFee(gas_price) == Min(PriorityCapWei, (gas_price * 8) \div 10)

\* A max fee computed with the factor of the priority fee.
MaxFeeNoBuffer(gas_price) == (gas_price * 8) \div 10

\* line 194: int(gas_price * 1.2)
MaxFee(gas_price) == (gas_price * 12) \div 10

pipelineFrame == <<height, chainEvents, initialized, last_processed_block,
                   initCursor, pc, current_block, events, idx, cycleStart,
                   cycleQueried, cycleInvoked, cycleOverlap, invoked>>

\* A process_event that goes on to submit after make_request has raised.
FetchFailureSubmits(e) ==
    /\ pstate[e] = "fetch"
    /\ \/ pstate' = [pstate EXCEPT ![e] = "process"]
       \/ pstate' = [pstate EXCEPT ![e] = "build"]
    /\ UNCHANGED pipelineFrame
    /\ UNCHANGED <<mined, sent, broadcast, raised, timedOut, tx, waited>>
    /\ UNCHANGED <<offlineVars, serviceVars, initVars>>

\* main.py 46: api_response = await api_client.make_request(event.request).
\* make_request returns an ApiResponse (success or not), or the decryption of
\* a confidential field raises before the call (api_client.py 39), which
\* process_event catches (main.py 58).
Fetch(e) ==
    /\ pstate[e] = "fetch"
    /\ \/ pstate' = [pstate EXCEPT ![e] = "process"]
       \/ pstate' = [pstate EXCEPT ![e] = "failed"]
    /\ UNCHANGED pipelineFrame
    /\ UNCHANGED <<mined, sent, broadcast, raised, timedOut, tx, waited>>
    /\ UNCHANGED <<offlineVars, serviceVars, initVars>>

\* main.py 49: processor.process_response(event, api_response): returns the
\* encoded payload, or raises, which process_event catches.
Process(e) ==
    /\ pstate[e] = "process"
    /\ \/ pstate' = [pstate EXCEPT ![e] = "build"]
       \/ pstate' = [pstate EXCEPT ![e] = "failed"]
    /\ UNCHANGED pipelineFrame
    /\ UNCHANGED <<mined, sent, broadcast, raised, timedOut, tx, waited>>
    /\ UNCHANGED <<offlineVars, serviceVars, initVars>>

\* blockchain.py 168-207: the lazy initialize, then derive the key, read the gas price, compute the fee
\* fields, read the nonce and build the transaction; any RPC failure raises.
SubmitBuild(e) ==
    /\ pstate[e] = "build"
    /\ \/ \E g \in GasPrices :
             /\ tx' = [id |-> e, base |-> g, maxFee |-> MaxFee(g),
                       prio |-> PriorityFee(g), nonce |-> mined]
             /\ pstate' = [pstate EXCEPT ![e] = "send"]
             /\ UNCHANGED raised
       \/ /\ pstate' = [pstate EXCEPT ![e] = "failed"]
          /\ raised' = raised \cup {e}
          /\ UNCHANGED tx
    /\ last_processed_block' =
          LazyInitialize(initialized, last_processed_block, height)
    /\ UNCHANGED <<height, chainEvents, initialized, initCursor, pc,
                   current_block, events, idx, cycleStart, cycleQueried,
                   cycleInvoked, cycleOverlap, invoked>>
    /\ UNCHANGED <<mined, sent, broadcast, timedOut, waited>>
    /\ UNCHANGED <<offlineVars, serviceVars, initVars>>

\* blockchain.py 213-216: sign and send_raw_transaction.
SubmitSend(e) ==
    /\ pstate[e] = "send"
    /\ \/ /\ sent' = [sent EXCEPT ![e] = @ + 1]
          /\ broadcast' = Append(broadcast, [id |-> e, nonce |-> tx.nonce])
          /\ pstate' = [pstate EXCEPT ![e] = "wait"]
          /\ waited' = 0
          /\ UNCHANGED <<raised, tx>>
       \/ /\ pstate' = [pstate EXCEPT ![e] = "failed"]
          /\ raised' = raised \cup {e}
          /\ tx' = NoTx
          /\ UNCHANGED <<sent, broadcast, waited>>
    /\ UNCHANGED pipelineFrame
    /\ UNCHANGED <<mined, timedOut>>
    /\ UNCHANGED <<offlineVars, serviceVars, initVars>>

\* blockchain.py 220: wait_for_transaction_receipt(tx_hash, timeout=60):
\* time passes without a receipt.
WaitTick(e) ==
    /\ pstate[e] = "wait"
    /\ waited + WaitStep < ReceiptTimeout
    /\ waited' = waited + WaitStep
    /\ UNCHANGED pipelineFrame
    /\ UNCHANGED <<mined, pstate, sent, broadcast, raised, timedOut, tx>>
    /\ UNCHANGED <<offlineVars, serviceVars, initVars>>

\* blockchain.py 220-224: the receipt is observed; submit_response returns it.
WaitReceipt(e) ==
    /\ pstate[e] = "wait"
    /\ waited < ReceiptTimeout
    /\ mined' = mined + 1
    /\ pstate' = [pstate EXCEPT ![e] = "done"]
    /\ tx' = NoTx
    /\ waited' = 0
    /\ UNCHANGED pipelineFrame
    /\ UNCHANGED <<sent, broadcast, raised, timedOut>>
    /\ UNCHANGED <<offlineVars, serviceVars, initVars>>

\* A timeout that builds and broadcasts the transaction again.
WaitTimeoutResend(e) ==
    /\ pstate[e] = "wait"
    /\ waited + WaitStep >= ReceiptTimeout
    /\ timedOut' = timedOut \cup {e}
    /\ sent' = [sent EXCEPT ![e] = @ + 1]
    /\ broadcast' = Append(broadcast, [id |-> e, nonce |-> tx.nonce])
    /\ pstate' = [pstate EXCEPT ![e] = "failed"]
    /\ raised' = raised \cup {e}
    /\ tx' = NoTx
    /\ waited' = 0
    /\ UNCHANGED pipelineFrame
    /\ UNCHANGED mined
    /\ UNCHANGED <<offlineVars, serviceVars, initVars>>

\* blockchain.py 220, 226-228: the bounded wait elapses: TimeExhausted is
\* logged and re-raised to process_event, which logs it (main.py 58).
WaitTimeout(e) ==
    /\ pstate[e] = "wait"
    /\ waited + WaitStep >= ReceiptTimeout
    /\ timedOut' = timedOut \cup {e}
    /\ pstate' = [pstate EXCEPT ![e] = "failed"]
    /\ raised' = raised \cup {e}
    /\ tx' = NoTx
    /\ waited' = 0
    /\ UNCHANGED pipelineFrame
    /\ UNCHANGED <<mined, sent, broadcast>>
    /\ UNCHANGED <<offlineVars, serviceVars, initVars>>

(***************************************************************************)
(* Python values and the string helpers the response processor relies on   *)
(***************************************************************************)
\* A Python value: its runtime type t, a number i (bool 0/1, int, float in
\* tenths, length of a list or dict) and a text s (str, bytes, repr of a
\* list or dict).
NoneV == [t |-> "None", i |-> 0, s |-> ""]

BoolV(b) == [t |-> "bool", i |-> IF b THEN 1 ELSE 0, s |-> ""]

IntV(n) == [t |-> "int", i |-> n, s |-> ""]

FloatV(tenths) == [t |-> "float", i |-> tenths, s |-> ""]

\* The float 1e+300 (valid JSON): larger than every other number of the
\* model; multiplied by 10**18 it is inf.
HugeFloatV == [t |-> "float", i |-> 2000000000, s |-> "1e+300"]

StrV(x) == [t |-> "str", i |-> 0, s |-> x]

BytesV(x) == [t |-> "bytes", i |-> 0, s |-> x]

ListV(n, repr) == [t |-> "list", i |-> n, s |-> repr]

DictV(n, repr) == [t |-> "dict", i |-> n, s |-> repr]

\* The characters of the model's strings, in ASCII order.
Alphabet == " '-.0123456789:ABCDEFGHIJKLMNOPQRSTUVWXYZ[]abcdefghijklmnopqrstuvwxyz{}"

UpperCase == "ABCDEFGHIJKLMNOPQRSTUVWXYZ"

LowerCase == "abcdefghijklmnopqrstuvwxyz"

Digits == "0123456789"

CharAt(str, k) == SubSeq(str, k, k)

Rest(str) == SubSeq(str, 2, Len(str))

IndexIn(str, c) ==
    IF \E k \in 1..Len(str) : CharAt(str, k) = c
    THEN CHOOSE k \in 1..Len(str) : CharAt(str, k) = c
    ELSE 0

\* str.lower()
LowerChar(c) ==
    IF IndexIn(UpperCase, c) > 0 THEN CharAt(LowerCase, IndexIn(UpperCase, c)) ELSE c

RECURSIVE Lower(_)
Lower(str) == IF str = "" THEN "" ELSE LowerChar(CharAt(str, 1)) \o Lower(Rest(str))

\* str.startswith / str.endswith / the in operator on strings
StartsWith(str, prefix) ==
    /\ Len(prefix) <= Len(str)
    /\ SubSeq(str, 1, Len(prefix)) = prefix

EndsWith(str, suffix) ==
    /\ Len(suffix) <= Len(str)
    /\ SubSeq(str, Len(str) - Len(suffix) + 1, Len(str)) = suffix

Contains(sub, str) ==
    \E k \in 0..(Len(str) - Len(sub)) : SubSeq(str, k + 1, k + Len(sub)) = sub

\* str < str: lexicographic on code points.
RECURSIVE StrLess(_, _)
StrLess(a, b) ==
    IF b = "" THEN FALSE
    ELSE IF a = "" THEN TRUE
    ELSE IF CharAt(a, 1) = CharAt(b, 1) THEN StrLess(Rest(a), Rest(b))
    ELSE IndexIn(Alphabet, CharAt(a, 1)) < IndexIn(Alphabet, CharAt(b, 1))

\* str(int)
RECURSIVE NatToStr(_)
NatToStr(n) ==
    IF n < 10 THEN CharAt(Digits, n + 1)
    ELSE NatToStr(n \div 10) \o CharAt(Digits, (n % 10) + 1)

IntToStr(n) == IF n < 0 THEN "-" \o NatToStr(-n) ELSE NatToStr(n)

\* str(float), for floats with one fractional digit
FloatToStr(tenths) ==
    IF tenths < 0
    THEN "-" \o NatToStr((-tenths) \div 10) \o "." \o NatToStr((-tenths) % 10)
    ELSE NatToStr(tenths \div 10) \o "." \o NatToStr(tenths % 10)

\* The value of a non-empty string of decimal digits, -1 for any other string.
RECURSIVE DigitsValue(_, _)
DigitsValue(str, acc) ==
    IF str = "" THEN acc
    ELSE IF IndexIn(Digits, CharAt(str, 1)) = 0 THEN -1
    ELSE DigitsValue(Rest(str), acc * 10 + IndexIn(Digits, CharAt(str, 1)) - 1)

\* float(str) for the decimal literals [-]digits[.digit]; any other text of
\* the model's vocabulary raises ValueError.  The result is in tenths.
ParseUnsigned(str) ==
    LET dot == IndexIn(str, ".") IN
    IF str = "" THEN [ok |-> FALSE, tenths |-> 0]
    ELSE IF dot = 0
    THEN [ok |-> DigitsValue(str, 0) >= 0, tenths |-> DigitsValue(str, 0) * 10]
    ELSE LET whole == SubSeq(str, 1, dot - 1)
             frac == SubSeq(str, dot + 1, Len(str))
         IN [ok |-> /\ whole # ""
                    /\ Len(frac) = 1
                    /\ DigitsValue(whole, 0) >= 0
                    /\ DigitsValue(frac, 0) >= 0,
             tenths |-> DigitsValue(whole, 0) * 10 + DigitsValue(frac, 0)]

ParseFloat(str) ==
    IF StartsWith(str, "-")
    THEN LET u == ParseUnsigned(Rest(str)) IN [ok |-> u.ok, tenths |-> -u.tenths]
    ELSE ParseUnsigned(str)

\* float(value)
PyFloat(value) ==
    CASE value.t \in {"bool", "int"} -> [ok |-> TRUE, tenths |-> value.i * 10]
      [] value.t = "float" -> [ok |-> TRUE, tenths |-> value.i]
      [] value.t = "str" -> ParseFloat(value.s)
      [] OTHER -> [ok |-> FALSE, tenths |-> 0]

\* int(float): truncation toward zero
Truncate(tenths) == IF tenths >= 0 THEN tenths \div 10 ELSE -((-tenths) \div 10)

\* bool(value)
PyBool(value) ==
    CASE value.t = "None" -> FALSE
      [] value.t \in {"bool", "int", "float", "list", "dict"} -> value.i # 0
      [] OTHER -> value.s # ""

\* str(value)
PyStr(value) ==
    CASE value.t = "None" -> "None"
      [] value.t = "bool" -> IF value.i = 1 THEN "True" ELSE "False"
      [] value.t = "int" -> IntToStr(value.i)
      [] value.t = "float" -> FloatToStr(value.i)
      [] value.t = "bytes" -> "b'" \o value.s \o "'"
      [] OTHER -> value.s

IsNumber(value) == value.t \in {"bool", "int", "float"}

Tenths(value) == IF value.t = "float" THEN value.i ELSE value.i * 10

\* a == b
PyEq(a, b) ==
    IF IsNumber(a) /\ IsNumber(b) THEN Tenths(a) = Tenths(b)
    ELSE a.t = b.t /\ a.i = b.i /\ a.s = b.s

\* a < b: raises TypeError unless both are numbers, both str or both bytes
\* (the right-hand side of a condition is never a list, a dict or None).
PyLess(a, b) ==
    IF IsNumber(a) /\ IsNumber(b) THEN [ok |-> TRUE, r |-> Tenths(a) < Tenths(b)]
    ELSE IF a.t = b.t /\ a.t \in {"str", "bytes"}
    THEN [ok |-> TRUE, r |-> StrLess(a.s, b.s)]
    ELSE [ok |-> FALSE, r |-> FALSE]


(***************************************************************************)
(* ResponseProcessor (services/response_processor.py)                      *)
(***************************************************************************)
\* Python None where a str is optional (ApiResponse.error, type_hint).
PyNone == "<None>"

\* crypto_manager.decrypt_from_contract with the oracle's private key held:
\* "enc:" followed by the plaintext stands for a ciphertext made for the
\* oracle's public key (the plaintext may be empty); any other text fails to
\* decode or to decrypt.
decrypt_from_contract(encrypted_data_b64) ==
    IF StartsWith(encrypted_data_b64, "enc:")
    THEN [ok |-> TRUE, text |-> SubSeq(encrypted_data_b64, 5, Len(encrypted_data_b64))]
    ELSE [ok |-> FALSE, text |-> ""]

\* ExtractionResult(path=..., value=..., type_hint=...): pydantic validates
\* path: str, and raises ValidationError for an argument that is not a str.
ExtractionResult(pathArg, value, type_hint) ==
    [ok |-> pathArg.kind = "str",
     res |-> [path |-> pathArg.s, value |-> value, type_hint |-> type_hint]]

PathOf(field) == [kind |-> "str", s |-> field.path]

FieldObject(field) == [kind |-> "ResponseField", s |-> field.path]

\* ResponseField.has_condition
has_condition(field) == field.condition.present /\ field.condition.operator # ""

\* A conversion that hands every value back as it is.
ConvertNothing(value, type_name) == value

\* ResponseProcessor._convert_to_type
_convert_to_type(value, type_name) ==
    LET normalized_type == Lower(type_name) IN
    IF Contains("uint", normalized_type) \/ Contains("int", normalized_type)
    THEN IF PyFloat(value).ok THEN IntV(Truncate(PyFloat(value).tenths)) ELSE value
    ELSE IF normalized_type = "bool" \/ normalized_type = "boolean"
    THEN IF value.t = "str"
         THEN BoolV(Lower(value.s) \in {"true", "yes", "1", "t", "y"})
         ELSE BoolV(PyBool(value))
    ELSE IF normalized_type = "string" THEN StrV(PyStr(value))
    ELSE IF normalized_type = "address"
    THEN StrV(Lower(IF StartsWith(PyStr(value), "0x")
                    THEN PyStr(value) ELSE "0x" \o PyStr(value)))
    ELSE IF StartsWith(normalized_type, "bytes")
    THEN IF value.t = "str" THEN BytesV(value.s)
         ELSE IF value.t = "bytes" THEN value
         ELSE BytesV(PyStr(value))
    ELSE value

\* lines 146-175: the comparison selected by the operator; ok = FALSE when the
\* comparison raises TypeError.
Compare(operator, a, b) ==
    CASE operator \in {"eq", "equals"} -> [ok |-> TRUE, r |-> PyEq(a, b)]
      [] operator \in {"neq", "not_equals"} -> [ok |-> TRUE, r |-> ~PyEq(a, b)]
      [] operator \in {"gt", "greater_than"} -> PyLess(b, a)
      [] operator \in {"gte", "greater_than_or_equals"} ->
            [ok |-> PyLess(a, b).ok, r |-> PyLess(a, b).ok /\ ~PyLess(a, b).r]
      [] operator \in {"lt", "less_than"} -> PyLess(a, b)
      [] operator \in {"lte", "less_than_or_equals"} ->
            [ok |-> PyLess(b, a).ok, r |-> PyLess(b, a).ok /\ ~PyLess(b, a).r]
      [] operator = "contains" -> [ok |-> TRUE, r |-> Contains(PyStr(b), PyStr(a))]
      [] operator = "startswith" -> [ok |-> TRUE, r |-> StartsWith(PyStr(a), PyStr(b))]
      [] operator = "endswith" -> [ok |-> TRUE, r |-> EndsWith(PyStr(a), PyStr(b))]
      [] OTHER -> [ok |-> TRUE, r |-> FALSE]

\* A handler that lets the exception of the try go on to the caller.
VerifyReraises(error) == [returned |-> FALSE, value |-> FALSE]

\* lines 186-192: every Exception raised inside the try is logged and
\* answered with the value False.
VerifyExcept(error) == [returned |-> TRUE, value |-> FALSE]

\* ResponseProcessor._verify_condition: the result, the number of
\* decryptions it invoked, and whether it returned (rather than raised).
_verify_condition(field, value) ==
    LET condition == field.condition
        dec == decrypt_from_contract(condition.value)
        condition_value == IF condition.encrypted THEN dec.text ELSE condition.value
        converted_value == _convert_to_type(value, field.responseType)
        converted_condition == _convert_to_type(StrV(condition_value), field.responseType)
        cmp == Compare(Lower(condition.operator), converted_value, converted_condition)
        decrypts == IF condition.present /\ condition.encrypted THEN 1 ELSE 0
        out == IF ~condition.present THEN [returned |-> TRUE, value |-> FALSE]
               ELSE IF condition.encrypted /\ ~dec.ok THEN VerifyExcept("CryptoError")
               ELSE IF ~cmp.ok THEN VerifyExcept("TypeError")
               ELSE [returned |-> TRUE, value |-> cmp.r]
    IN  [res |-> ExtractionResult(PathOf(field), BoolV(out.value), "bool").res,
         decrypts |-> IF condition.present THEN decrypts ELSE 0,
         returned |-> out.returned]

\* A type inference that tests for int before bool: True is an int in Python,
\* so a boolean would be hinted "uint256".
TypeHintIntFirst(value) ==
    CASE value.t = "None" -> PyNone
      [] value.t \in {"int", "bool"} -> IF value.i >= 0 THEN "uint256" ELSE "int256"
      [] value.t = "float" -> "int256"
      [] value.t = "str" -> "string"
      [] value.t = "list" -> "array"
      [] value.t = "dict" -> "object"
      [] OTHER -> "bytes"

\* ResponseProcessor._get_type_hint
_get_type_hint(value) ==
    CASE value.t = "None" -> PyNone
      [] value.t = "bool" -> "bool"
      [] value.t = "int" -> IF value.i >= 0 THEN "uint256" ELSE "int256"
      [] value.t = "float" -> "int256"
      [] value.t = "str" -> "string"
      [] value.t = "list" -> "array"
      [] value.t = "dict" -> "object"
      [] OTHER -> "bytes"

\* The response bodies of the model:
\*   1: {"a": {"b": 42}, "s": "hello", "neg": -7, "items": [true, 5], "z": null}
\*   2: {"a": {"b": 1.5}, "s": "10", "neg": 0, "items": [], "big": 1e300}
Docs == {1, 2}

\* jsonpath_ng.parse(path) raises for a malformed expression.
ParseRaises(path) == path = "$["

\* [match.value for match in jsonpath_ng.parse(path).find(raw_data)]
Find(doc, path) ==
    CASE path = "a.b" -> IF doc = 1 THEN <<IntV(42)>> ELSE <<FloatV(15)>>
      [] path = "a" -> IF doc = 1 THEN <<DictV(1, "{'b': 42}")>>
                       ELSE <<DictV(1, "{'b': 1.5}")>>
      [] path = "s" -> IF doc = 1 THEN <<StrV("hello")>> ELSE <<StrV("10")>>
      [] path = "neg" -> IF doc = 1 THEN <<IntV(-7)>> ELSE <<IntV(0)>>
      [] path = "items" -> IF doc = 1 THEN <<ListV(2, "[True, 5]")>>
                           ELSE <<ListV(0, "[]")>>
      [] path = "items[*]" -> IF doc = 1 THEN <<BoolV(TRUE), IntV(5)>> ELSE <<>>
      [] path = "z" -> IF doc = 1 THEN <<NoneV>> ELSE <<>>
      [] path = "big" -> IF doc = 1 THEN <<>> ELSE <<HugeFloatV>>
      [] OTHER -> <<>>

\* A loop body whose exception is not caught: the error of a field leaves
\* _extract_data.
FieldErrorPropagates(field) ==
    [res |-> ExtractionResult(PathOf(field), NoneV, PyNone).res, raised |-> TRUE,
     pathEvals |-> 1, condEvals |-> 0, decrypts |-> 0]

\* lines 106-112: except Exception: the field degrades to value None and
\* type_hint None and the loop goes on.
FieldErrorCaught(field) ==
    [res |-> ExtractionResult(PathOf(field), NoneV, PyNone).res, raised |-> FALSE,
     pathEvals |-> 1, condEvals |-> 0, decrypts |-> 0]

\* lines 75-112: one iteration of the loop over the response fields, with the
\* numbers of path queries, condition evaluations and decryptions it made.
ExtractField(field, doc) ==
    LET matches == Find(doc, field.path)
        null == ExtractionResult(PathOf(field), NoneV, PyNone).res
    IN  IF ParseRaises(field.path)
        THEN FieldErrorCaught(field)
        ELSE IF matches = <<>>
        THEN [res |-> null, raised |-> FALSE,
              pathEvals |-> 1, condEvals |-> 0, decrypts |-> 0]
        ELSE IF has_condition(field)
        THEN [res |-> _verify_condition(field, matches[1]).res, raised |-> FALSE,
              pathEvals |-> 1, condEvals |-> 1,
              decrypts |-> _verify_condition(field, matches[1]).decrypts]
        ELSE [res |-> ExtractionResult(PathOf(field), matches[1],
                                       _get_type_hint(matches[1])).res,
              raised |-> FALSE,
              pathEvals |-> 1, condEvals |-> 0, decrypts |-> 0]

RECURSIVE SumOver(_, _)
SumOver(seq, key) ==
    IF seq = <<>> THEN 0 ELSE Head(seq)[key] + SumOver(Tail(seq), key)

\* line 52 without the test: a failed response is processed like any other.
FetchFailedIgnored(api_response) == FALSE

\* line 52: if not api_response.success
FetchFailed(api_response) == ~api_response.success

ExtractRaised ==
    [returned |-> FALSE, success |-> FALSE, results |-> <<>>, error |-> PyNone,
     pathEvals |-> 0, condEvals |-> 0, decrypts |-> 0]

\* ResponseProcessor._extract_data(request_event, api_response), on the
\* responseFields of the request.  returned = FALSE: the call raised.
_extract_data(fields, api_response) ==
    IF FetchFailed(api_response)
    THEN [returned |-> TRUE, success |-> FALSE, results |-> <<>>,
          error |-> api_response.error,
          pathEvals |-> 0, condEvals |-> 0, decrypts |-> 0]
    ELSE IF api_response.kind = "str"
    THEN \* lines 64-72: path=field_path is given the ResponseField itself
         IF \E k \in 1..Len(fields) :
               ~ExtractionResult(FieldObject(fields[k]), StrV(api_response.text),
                                 "string").ok
         THEN ExtractRaised
         ELSE [returned |-> TRUE, success |-> TRUE,
               results |-> [k \in 1..Len(fields) |->
                               ExtractionResult(FieldObject(fields[k]),
                                                StrV(api_response.text),
                                                "string").res],
               error |-> PyNone,
               pathEvals |-> 0, condEvals |-> 0, decrypts |-> 0]
    ELSE LET per == [k \in 1..Len(fields) |-> ExtractField(fields[k], api_response.doc)]
         IN IF \E k \in 1..Len(fields) : per[k].raised THEN ExtractRaised ELSE
            [returned |-> TRUE, success |-> TRUE,
             results |-> [k \in 1..Len(fields) |-> per[k].res],
             error |-> PyNone,
             pathEvals |-> SumOver(per, "pathEvals"),
             condEvals |-> SumOver(per, "condEvals"),
             decrypts |-> SumOver(per, "decrypts")]


(***************************************************************************)
(* ResponseProcessor._prepare_value_for_encoding and _encode_data          *)
(* (response_processor.py 252-301)                                         *)
(***************************************************************************)

\* int(value * 10**18) of a float that is value.i tenths: value.i * 10**17,
\* kept as the pair (value.i, "e17") because it exceeds the model's integers.
ScaledInt(tenths) == [t |-> "int", i |-> tenths, s |-> "e17"]

\* A preparation that passes None through to the encoder.
PrepareKeepsNone(value, type_hint) ==
    IF value.t = "float"
    THEN IF value = HugeFloatV
         THEN [ok |-> FALSE, v |-> NoneV]
         ELSE [ok |-> TRUE, v |-> ScaledInt(value.i)]
    ELSE [ok |-> TRUE, v |-> value]

\* ResponseProcessor._prepare_value_for_encoding; ok = FALSE when it raises:
\* 1e300 * 10**18 is inf and int(inf) raises OverflowError.
_prepare_value_for_encoding(value, type_hint) ==
    IF value = NoneV
    THEN [ok |-> TRUE,
          v |-> CASE type_hint = "bool" -> BoolV(FALSE)
                  [] type_hint \in {"uint256", "int256"} -> IntV(0)
                  [] type_hint = "string" -> StrV("")
                  [] type_hint \in {"array", "object"} -> ListV(0, "[]")
                  [] OTHER -> BytesV("")]
    ELSE IF value.t = "float"
    THEN IF value = HugeFloatV
         THEN [ok |-> FALSE, v |-> NoneV]
         ELSE [ok |-> TRUE, v |-> ScaledInt(value.i)]
    ELSE [ok |-> TRUE, v |-> value]

\* eth_abi's encoder for one (type, value) pair accepts the value: the type
\* string is an ABI type and the value has the Python type and the range the
\* type requires (a bool is not accepted as an integer).
AbiAccepts(type, value) ==
    CASE type = "bool" -> value.t = "bool"
      [] type = "uint256" -> value.t = "int" /\ value.i >= 0
      [] type = "int256" -> value.t = "int"
      [] type = "string" -> value.t = "str"
      [] type = "bytes" -> value.t = "bytes"
      [] OTHER -> FALSE

\* line 297, abi.encode(types, values): the encoding, or the exception.
AbiEncode(types, values) ==
    IF \A k \in 1..Len(types) : AbiAccepts(types[k], values[k])
    THEN [ok |-> TRUE, bytes |-> [kind |-> "abi", text |-> "", types |-> types, values |-> values]]
    ELSE [ok |-> FALSE, bytes |-> [kind |-> "abi", text |-> "", types |-> <<>>, values |-> <<>>]]

\* Web3.to_bytes(text=...): the UTF-8 bytes of a text.
TextBytes(text) == [kind |-> "text", text |-> text, types |-> <<>>, values |-> <<>>]

\* An error text in which only None is replaced.
ErrorOrEmpty(error) == IF error = PyNone THEN "" ELSE error

\* line 278: extracted_data.error or "Unknown error" (None and "" are falsy).
ErrorOrUnknown(error) == IF error \in {PyNone, ""} THEN "Unknown error" ELSE error

\* line 286: result.type_hint or "bytes".
HintOrBytes(type_hint) == IF type_hint \in {PyNone, ""} THEN "bytes" ELSE type_hint

\* _encode_data raised.
EncodeRaised ==
    [returned |-> FALSE, bytes |-> TextBytes(""), abiCalls |-> 0, prepared |-> <<>>]

\* ResponseProcessor._encode_data, with the number of abi.encode calls it
\* made and the values it prepared.
_encode_data(extracted_data) ==
    IF ~extracted_data.success
    THEN [returned |-> TRUE, bytes |-> TextBytes(ErrorOrUnknown(extracted_data.error)),
          abiCalls |-> 0, prepared |-> <<>>]
    ELSE LET results == extracted_data.results
             types == [k \in 1..Len(results) |-> HintOrBytes(results[k].type_hint)]
             prep == [k \in 1..Len(results) |->
                         _prepare_value_for_encoding(results[k].value, types[k])]
             values == [k \in 1..Len(results) |-> prep[k].v]
             enc == AbiEncode(types, values)
         IN  IF \E k \in 1..Len(results) : ~prep[k].ok
             THEN EncodeRaised
             ELSE IF enc.ok
             THEN [returned |-> TRUE, bytes |-> enc.bytes, abiCalls |-> 1,
                   prepared |-> values]
             ELSE [returned |-> TRUE,
                   bytes |-> TextBytes("Encoding error: " \o "<eth_abi message>"),
                   abiCalls |-> 1, prepared |-> values]


(***************************************************************************)
(* Inputs of _extract_data                                                 *)
(***************************************************************************)
MaxFields == 2

NoCondition == [present |-> FALSE, operator |-> "", value |-> "", encrypted |-> FALSE]

Cond(operator, value, encrypted) ==
    [present |-> TRUE, operator |-> operator, value |-> value, encrypted |-> encrypted]

Field(path, responseType, condition) ==
    [path |-> path, responseType |-> responseType, condition |-> condition]

\* The response fields requests are built from.
FieldPool ==
    { Field("a.b", "uint256", NoCondition),
      Field("a.b", "uint256", Cond("gt", "10", FALSE)),
      Field("s", "string", NoCondition),
      Field("s", "string", Cond("Contains", "ell", FALSE)),
      Field("missing", "uint256", NoCondition),
      Field("$[", "string", NoCondition),
      Field("neg", "int256", Cond("lt", "enc:0", TRUE)),
      Field("a.b", "uint256", Cond("eq", "garbage", TRUE)),
      Field("a.b", "string", Cond("", "", FALSE)),
      Field("items[*]", "bool", NoCondition),
      Field("a.b", "object", Cond("gt", "10", FALSE)),
      Field("a.b", "string", Cond("gt", "10", FALSE)),
      Field("neg", "int256", NoCondition),
      Field("items", "array", NoCondition),
      Field("a", "object", NoCondition) }

FieldLists == UNION {[1..n -> FieldPool] : n \in 0..MaxFields}

\* ApiResponse as api_client builds it: success with a JSON or a text body,
\* failure with the body attached (status >= 400) or without (timeout).
Response(success, kind, doc, text, error) ==
    [success |-> success, kind |-> kind, doc |-> doc, text |-> text, error |-> error]

Responses ==
    { Response(TRUE, "json", 1, "", PyNone),
      Response(TRUE, "json", 2, "", PyNone),
      Response(TRUE, "str", 0, "plain text", PyNone),
      Response(FALSE, "json", 1, "", "Request failed with status 404"),
      Response(FALSE, "str", 0, "Not Found", "Request failed with status 500"),
      Response(FALSE, "none", 0, "", "Request timed out after 30 seconds"),
      Response(FALSE, "none", 0, "", PyNone) }

NoResp == Response(FALSE, "none", 0, "", PyNone)

NoOut == ExtractRaised

\* processor._extract_data(request_event, api_response) is called.
DoExtract ==
    /\ exPc = "ready"
    /\ exOut' = _extract_data(exFields, exResp)
    /\ exPc' = "done"
    /\ UNCHANGED <<exFields, exResp>>
    /\ UNCHANGED <<bridgeVars, conditionVars, encodeVars, requestVars, serviceVars, initVars>>

(***************************************************************************)
(* _verify_condition on its own inputs (response_processor.py 119-193)     *)
(***************************************************************************)
\* Operator names in several spellings and cases, and one that is unknown.
ConditionOperators ==
    {"gt", "GT", "greater_than", "Greater_Than", "eq", "NEQ", "lte", "contains", "bogus"}

ConditionTypes == {"uint256", "string", "bool"}

\* Condition values: plain, encrypted for the oracle, and flagged encrypted
\* without being a ciphertext.
ConditionValues ==
    {<<"10", FALSE>>, <<"abc", FALSE>>, <<"enc:10", TRUE>>, <<"garbage", TRUE>>}

ConditionFields ==
    { Field("a.b", type_name, Cond(operator, cv[1], cv[2])) :
        type_name \in ConditionTypes, operator \in ConditionOperators,
        cv \in ConditionValues }
    \cup { Field("a.b", type_name, NoCondition) : type_name \in ConditionTypes }

\* The extracted values a condition is evaluated on.
ConditionInputs ==
    { IntV(42), IntV(10), StrV("abc"), NoneV, DictV(1, "{'b': 42}") }

NoVerify ==
    [res |-> ExtractionResult(PathOf(Field("", "", NoCondition)), NoneV, PyNone).res,
     decrypts |-> 0, returned |-> FALSE]

DoVerify ==
    /\ vcPc = "ready"
    /\ vcOut' = _verify_condition(vcField, vcValue)
    /\ vcPc' = "done"
    /\ UNCHANGED <<vcField, vcValue>>
    /\ UNCHANGED <<bridgeVars, extractVars, encodeVars, requestVars, serviceVars, initVars>>

(***************************************************************************)
(* ApiClient._process_encrypted_fields (api_client.py 103-187)             *)
(***************************************************************************)

\* KeyValue(key=..., value=..., encrypted=...)
KeyValue(key, value, encrypted) == [key |-> key, value |-> value, encrypted |-> encrypted]

\* RequestData(...); the method plays no part in the functions modelled.
RequestData(url, urlEncrypted, headers, queryParams, body, bodyEncrypted, responseFields) ==
    [url |-> url, urlEncrypted |-> urlEncrypted, headers |-> headers,
     queryParams |-> queryParams, body |-> body, bodyEncrypted |-> bodyEncrypted,
     responseFields |-> responseFields]

\* A header or parameter handed on as it came, encrypted or not.
KeepKeyValue(kv) == kv

\* lines 130-142 and 145-157: one header or query parameter.
ResolveKeyValue(kv) ==
    IF kv.encrypted
    THEN KeyValue(kv.key, decrypt_from_contract(kv.value).text, FALSE)
    ELSE kv

\* lines 160-185: one response field; a condition is rebuilt with
\* encrypted = False, its value decrypted when it was flagged.
ResolveField(field) ==
    IF field.condition.present
    THEN Field(field.path, field.responseType,
               Cond(field.condition.operator,
                    IF field.condition.encrypted
                    THEN decrypt_from_contract(field.condition.value).text
                    ELSE field.condition.value,
                    FALSE))
    ELSE Field(field.path, field.responseType, field.condition)

\* One decrypt_from_contract call: the place of the value and the value.
Call(loc, k, value) == [loc |-> loc, k |-> k, value |-> value]

KeyValueCalls(loc, kvs) ==
    SelectSeq([k \in 1..Len(kvs) |-> [call |-> Call(loc, k, kvs[k].value), on |-> kvs[k].encrypted]],
              LAMBDA x : x.on)

ConditionCalls(fields) ==
    SelectSeq([k \in 1..Len(fields) |->
                  [call |-> Call("condition", k, fields[k].condition.value),
                   on |-> fields[k].condition.present /\ fields[k].condition.encrypted]],
              LAMBDA x : x.on)

CallsOf(tagged) == [k \in 1..Len(tagged) |-> tagged[k].call]

\* The decryptions _process_encrypted_fields makes when none fails, in the
\* order of the code: url, body, headers, query parameters, conditions.
ResolveCalls(request) ==
    (IF request.urlEncrypted THEN <<Call("url", 1, request.url)>> ELSE <<>>)
    \o (IF request.bodyEncrypted THEN <<Call("body", 1, request.body)>> ELSE <<>>)
    \o CallsOf(KeyValueCalls("header", request.headers))
    \o CallsOf(KeyValueCalls("param", request.queryParams))
    \o CallsOf(ConditionCalls(request.responseFields))

\* The index of the first call that raises, 0 when none does.
FirstFailure(calls) ==
    IF \E k \in 1..Len(calls) : ~decrypt_from_contract(calls[k].value).ok
    THEN CHOOSE k \in 1..Len(calls) :
            /\ ~decrypt_from_contract(calls[k].value).ok
            /\ \A j \in 1..(k - 1) : decrypt_from_contract(calls[j].value).ok
    ELSE 0

\* ApiClient._process_encrypted_fields: the new RequestData, or the exception
\* of the first decryption that fails, with the decryptions made.
_process_encrypted_fields(request) ==
    LET calls == ResolveCalls(request)
        f == FirstFailure(calls)
    IN  IF f # 0
        THEN [returned |-> FALSE, request |-> request, log |-> SubSeq(calls, 1, f)]
        ELSE [returned |-> TRUE,
              request |->
                  RequestData(
                      IF request.urlEncrypted
                      THEN decrypt_from_contract(request.url).text ELSE request.url,
                      FALSE,
                      [k \in 1..Len(request.headers) |-> ResolveKeyValue(request.headers[k])],
                      [k \in 1..Len(request.queryParams) |->
                          ResolveKeyValue(request.queryParams[k])],
                      IF request.bodyEncrypted
                      THEN decrypt_from_contract(request.body).text ELSE request.body,
                      FALSE,
                      [k \in 1..Len(request.responseFields) |->
                          ResolveField(request.responseFields[k])]),
              log |-> calls]

\* The decryptions _extract_data makes on the fields of the event's request:
\* one per field whose condition _verify_condition evaluates.
VerifyCalls(fields, api_response) ==
    IF api_response.success /\ api_response.kind = "json"
    THEN CallsOf(SelectSeq(
            [k \in 1..Len(fields) |->
                [call |-> Call("condition", k, fields[k].condition.value),
                 on |-> ExtractField(fields[k], api_response.doc).decrypts > 0]],
            LAMBDA x : x.on))
    ELSE <<>>


(***************************************************************************)
(* Inputs of _encode_data                                                  *)
(***************************************************************************)
MaxResults == 2

\* ExtractionResult(path=..., value=..., type_hint=...)
Result(value, type_hint) ==
    ExtractionResult([kind |-> "str", s |-> "a.b"], value, type_hint).res

\* ExtractedData(success=..., results=..., error=...)
Data(success, results, error) ==
    [success |-> success, results |-> results, error |-> error]

HintPool ==
    {PyNone, "", "bool", "uint256", "int256", "string", "array", "object", "bytes"}

ValuePool ==
    { NoneV, BoolV(TRUE), IntV(42), IntV(-7), FloatV(15), HugeFloatV,
      StrV("hello"), ListV(2, "[True, 5]"), DictV(1, "{'b': 42}"), BytesV("ab") }

\* The results longer lists are built from.
ResultPool ==
    { Result(BoolV(TRUE), "bool"), Result(NoneV, "uint256"),
      Result(IntV(42), "uint256"), Result(IntV(-7), "int256"),
      Result(FloatV(15), "int256"), Result(HugeFloatV, "int256"),
      Result(StrV("hello"), "string"), Result(NoneV, PyNone),
      Result(ListV(2, "[True, 5]"), "array"), Result(NoneV, "array"),
      Result(IntV(42), "bool"), Result(IntV(-7), "uint256") }

\* Every single (type hint, value) combination, lists over ResultPool, and
\* failed extractions with and without an error message.
ExtractedDatas ==
    {Data(TRUE, <<Result(v, h)>>, PyNone) : v \in ValuePool, h \in HintPool}
    \cup {Data(TRUE, rs, PyNone) :
             rs \in UNION {[1..n -> ResultPool] : n \in 0..MaxResults}}
    \cup {Data(FALSE, rs, e) :
             rs \in {<<>>, <<Result(IntV(42), "uint256")>>},
             e \in {PyNone, "", "boom", "Request failed with status 404"}}

NoData == Data(FALSE, <<>>, PyNone)

\* processor._encode_data(extracted_data) is called.
DoEncode ==
    /\ enPc = "ready"
    /\ enOut' = _encode_data(enData)
    /\ enPc' = "done"
    /\ UNCHANGED enData
    /\ UNCHANGED <<bridgeVars, conditionVars, extractVars, requestVars, serviceVars, initVars>>

(***************************************************************************)
(* process_event on one request (main.py 41-59)                            *)
(***************************************************************************)
MaxHeaders == 2

HeaderPool ==
    { KeyValue("Accept", "application/json", FALSE),
      KeyValue("Authorization", "enc:Bearer t0ken", TRUE),
      KeyValue("X-Api-Key", "garbage", TRUE) }

HeaderLists == UNION {[1..n -> HeaderPool] : n \in 0..MaxHeaders}

ParamLists ==
    { <<>>,
      <<KeyValue("key", "enc:s3cret", TRUE)>>,
      <<KeyValue("page", "2", FALSE), KeyValue("key", "enc:s3cret", TRUE)>> }

\* Response field lists with plain, encrypted, unmatched, unused and
\* undecryptable condition values.
RequestFieldLists ==
    { <<>>,
      <<Field("a.b", "uint256", Cond("gt", "10", FALSE))>>,
      <<Field("a.b", "uint256", NoCondition), Field("neg", "int256", Cond("lt", "enc:0", TRUE))>>,
      <<Field("missing", "uint256", Cond("gt", "enc:1", TRUE))>>,
      <<Field("a.b", "uint256", Cond("", "enc:1", TRUE))>>,
      <<Field("a.b", "uint256", Cond("eq", "garbage", TRUE))>> }

Requests ==
    { RequestData(u[1], u[2], hs, ps, b[1], b[2], fs) :
        u \in {<<"https://api.test/x", FALSE>>, <<"enc:https://api.test/x", TRUE>>,
               <<"garbage", TRUE>>},
        hs \in HeaderLists,
        ps \in ParamLists,
        b \in {<<"", FALSE>>, <<"enc:{}", TRUE>>},
        fs \in RequestFieldLists }

NoRequest == RequestData("", FALSE, <<>>, <<>>, "", FALSE, <<>>)

ApiTimeout == 30

\* A response body: JSON, text that is not JSON, or one whose read raises.
Body(kind, doc, text) == [kind |-> kind, doc |-> doc, text |-> text]

NoBody == Body("none", 0, "")

\* How the HTTP call ends: a response with a status arrives, the total
\* timeout expires, or the transport fails.
Outcome(kind, status, body) == [kind |-> kind, status |-> status, body |-> body]

HttpOutcomes ==
    { Outcome("status", st, b) :
        st \in {200, 399, 400, 500},
        b \in {Body("json", 1, ""), Body("str", 0, "plain text"),
               Body("unreadable", 0, "")} }
    \cup {Outcome("timeout", 0, NoBody), Outcome("error", 0, NoBody)}

\* A success test that takes client errors for successes.
StatusBelow500(status) == status < 500

\* _process_response line 202: if response.status < 400
StatusOk(status) == status < 400

\* ApiClient._process_response
_process_response(status, body) ==
    IF body.kind = "unreadable"
    THEN Response(FALSE, "none", 0, "", "Error processing response: " \o "<message>")
    ELSE IF StatusOk(status)
    THEN Response(TRUE, body.kind, body.doc, body.text, PyNone)
    ELSE Response(FALSE, body.kind, body.doc, body.text,
                  "Request failed with status " \o NatToStr(status))

\* make_request lines 48-101: what the try block returns; every exception
\* raised in it is caught, so it always returns.
make_request(outcome) ==
    [returned |-> TRUE,
     response |->
        CASE outcome.kind = "status" -> _process_response(outcome.status, outcome.body)
          [] outcome.kind = "timeout" ->
                Response(FALSE, "none", 0, "",
                         "Request timed out after " \o NatToStr(ApiTimeout) \o " seconds")
          [] OTHER -> Response(FALSE, "none", 0, "", "Request failed: " \o "<message>")]

\* The ApiResponses the HTTP call of one request may end in.
RequestResponses == {make_request(o).response : o \in HttpOutcomes}

\* request.py 66: "&".join(f"{param.key}={param.value}" for each parameter).
RECURSIVE QueryString(_)
QueryString(params) ==
    IF params = <<>>
    THEN ""
    ELSE params[1].key \o "=" \o params[1].value
         \o (IF Len(params) > 1 THEN "&" \o QueryString(Tail(params)) ELSE "")

\* RequestData.get_full_url
get_full_url(request) ==
    IF request.queryParams = <<>>
    THEN request.url
    ELSE request.url \o (IF Contains("?", request.url) THEN "&" ELSE "?")
         \o QueryString(request.queryParams)

\* RequestData.get_headers_dict: one value per key, the last header wins.
get_headers_dict(request) ==
    LET hs == request.headers
        last(key) == CHOOSE k \in 1..Len(hs) :
                        /\ hs[k].key = key
                        /\ \A j \in (k + 1)..Len(hs) : hs[j].key # key
    IN  [key \in {hs[k].key : k \in 1..Len(hs)} |-> hs[last(key)].value]

\* What one HTTP call puts on the wire, with the request it was built from.
HttpCall(request) ==
    [url |-> get_full_url(request),
     headers |-> get_headers_dict(request),
     body |-> request.body,
     request |-> request]

NoHttpCall == HttpCall(NoRequest)

\* A make_request that builds the call from the request of the event.
CallWithInput(request, processed_request) == request

\* make_request lines 39-46: the name request is rebound to the processed
\* request, and the url and the headers of the call are read from it.
CallRequest(request, processed_request) == processed_request

NoOutcome ==
    [outcome |-> Outcome("none", 0, NoBody), returned |-> FALSE, call |-> NoHttpCall]

\* A resolution that writes the plaintexts into the request it was given.
InputOverwritten(request, processed_request) == processed_request

\* api_client.py 105-115: the plaintexts go into a new RequestData; the
\* request of the event keeps its values and flags.
InputAfterResolve(request, processed_request) == request

\* make_request line 39: request = await self._process_encrypted_fields(request).
\* The call is outside make_request's try, so its exception reaches
\* process_event, which logs it and ends the event.
DoResolve ==
    /\ rqPc = "ready"
    /\ LET out == _process_encrypted_fields(rqReq)
       IN  /\ rqLog' = out.log
           /\ rqOut' = out.request
           /\ rqPc' = IF out.returned THEN "resolved" ELSE "failed"
           /\ rqReq' = InputAfterResolve(rqReq, out.request)
    /\ UNCHANGED <<rqCalls, rqOutcome, rqResp, rqPayload, rqSubmit>>
    /\ UNCHANGED <<bridgeVars, conditionVars, extractVars, encodeVars, serviceVars, initVars>>

\* make_request lines 41-101: the HTTP call is issued with the processed
\* request and an ApiResponse is returned.
DoHttp ==
    /\ rqPc = "resolved"
    /\ rqCalls' = rqCalls + 1
    /\ \E o \in HttpOutcomes :
          /\ rqOutcome' = [outcome |-> o, returned |-> make_request(o).returned,
                            call |-> HttpCall(CallRequest(rqReq, rqOut))]
          /\ rqResp' = make_request(o).response
          /\ rqPc' = IF make_request(o).returned THEN "fetched" ELSE "failed"
    /\ UNCHANGED <<rqReq, rqOut, rqLog, rqPayload, rqSubmit>>
    /\ UNCHANGED <<bridgeVars, conditionVars, extractVars, encodeVars, serviceVars, initVars>>

\* process_response line 39 and 42-48: the extracted data is encoded and
\* packed; returned = FALSE when _extract_data or _encode_data raised.
ProcessedResponse(extracted, encoded) ==
    [returned |-> extracted.returned /\ encoded.returned,
     success |-> extracted.success,
     encoded_data |-> encoded.bytes]

EncodeExtracted(extracted) ==
    ProcessedResponse(extracted,
                      IF extracted.returned THEN _encode_data(extracted) ELSE EncodeRaised)

\* ResponseProcessor.process_response
process_response(fields, api_response) ==
    EncodeExtracted(_extract_data(fields, api_response))

\* main.py 49: what process_event does with the outcome of process_response.
AfterProcess(processed) ==
    /\ rqPayload' = processed.encoded_data
    /\ rqPc' = IF processed.returned THEN "processed" ELSE "failed"

\* main.py 49: processor.process_response(event, api_response), on the
\* event's own request.
DoProcess ==
    /\ rqPc = "fetched"
    /\ AfterProcess(process_response(rqReq.responseFields, rqResp))
    /\ rqLog' = rqLog \o VerifyCalls(rqReq.responseFields, rqResp)
    /\ UNCHANGED <<rqReq, rqOut, rqCalls, rqOutcome, rqResp, rqSubmit>>
    /\ UNCHANGED <<bridgeVars, conditionVars, extractVars, encodeVars, serviceVars, initVars>>

\* One call of submit_response: whether it was made, and its response_data.
SubmitCall(called, response_data) ==
    [called |-> called, response_data |-> response_data]

NoSubmit == SubmitCall(FALSE, TextBytes(""))

\* A process_event that reports only the fetches that succeeded.
SubmitOnFetchSuccess(api_response) == api_response.success

\* main.py 52-55: submit_response is called whenever process_response has
\* returned; nothing looks at the success flag.
SubmitAfterProcess(api_response) == TRUE

\* main.py 52-55: blockchain_service.submit_response(event.requestId,
\* processed_response.encoded_data).
DoSubmit ==
    /\ rqPc = "processed"
    /\ rqSubmit' = IF SubmitAfterProcess(rqResp)
                   THEN SubmitCall(TRUE, rqPayload) ELSE rqSubmit
    /\ rqPc' = "submitted"
    /\ UNCHANGED <<rqReq, rqOut, rqLog, rqCalls, rqOutcome, rqResp, rqPayload>>
    /\ UNCHANGED <<bridgeVars, conditionVars, extractVars, encodeVars, serviceVars, initVars>>


(***************************************************************************)
(* CryptoManager (utils/crypto.py)                                         *)
(***************************************************************************)
\* The fields of the singleton; PyNone stands for None.
CryptoManager(private_key, public_key, address, is_initialized) ==
    [private_key |-> private_key, public_key |-> public_key,
     address |-> address, initialized |-> is_initialized]

\* __init__: no key, no address, not initialized.
NewCryptoManager == CryptoManager(PyNone, PyNone, PyNone, FALSE)

\* The private key DStack derives for the path '/' and subject 'tee-oracle'.
DerivedKey == "0xK1"

\* The public key and the address that belong to a private key.
PublicOf(private_key) == IF private_key = DerivedKey THEN "0xP1" ELSE "0xP?"

AddressOf(private_key) == IF private_key = DerivedKey THEN "0xA1" ELSE "0xA?"

\* What a call on the manager gives back: an exception or a value.
Raises(error) == [raised |-> TRUE, error |-> error, value |-> PyNone]

Returns(value) == [raised |-> FALSE, error |-> PyNone, value |-> value]

\* initialize: a no-op once _initialized is set; otherwise the key comes from
\* DStack (dstack is "key" when derive_key answers, "fails" when it raises)
\* and the address is derived from it. _public_key is not assigned.
CryptoManager_initialize(self, dstack) ==
    IF self.initialized THEN self
    ELSE IF dstack = "key"
    THEN CryptoManager(DerivedKey, self.public_key, AddressOf(DerivedKey), TRUE)
    ELSE self

\* set_public_key: the key gets its 0x prefix, and _initialized is set.
set_public_key(self, public_key) ==
    CryptoManager(self.private_key,
                  IF StartsWith(public_key, "0x") THEN public_key
                  ELSE "0x" \o public_key,
                  self.address, TRUE)

\* ECIES: a ciphertext made for the public key of DerivedKey is "enc:"
\* followed by the plaintext, one made for another key is "enc2:" followed
\* by the plaintext; base64 is part of the text.
ecies_encrypt(public_key, data) ==
    IF public_key = PublicOf(DerivedKey) THEN "enc:" \o data ELSE "enc2:" \o data

\* A decrypt that answers the empty string where the code raises.
DecryptOrEmpty(self, encrypted_data_b64) ==
    IF /\ self.initialized
       /\ self.private_key # PyNone
       /\ decrypt_from_contract(encrypted_data_b64).ok
    THEN Returns(decrypt_from_contract(encrypted_data_b64).text)
    ELSE Returns("")

\* encrypt_for_contract: the two guards, then ECIES with _public_key.
CryptoManager_encrypt_for_contract(self, data) ==
    IF ~self.initialized THEN Raises("Crypto manager not initialized")
    ELSE IF self.public_key = PyNone THEN Raises("Public key not set")
    ELSE Returns(ecies_encrypt(self.public_key, data))

\* decrypt_from_contract: the two guards, then base64 and ECIES with
\* _private_key, whose errors propagate.
CryptoManager_decrypt_from_contract(self, encrypted_data_b64) ==
    IF ~self.initialized THEN Raises("Crypto manager not initialized")
    ELSE IF self.private_key = PyNone THEN Raises("Private key not available")
    ELSE IF decrypt_from_contract(encrypted_data_b64).ok
    THEN Returns(decrypt_from_contract(encrypted_data_b64).text)
    ELSE Raises("decryption failed")

\* The strings given to encrypt.
Plaintexts == {"", "s3cret", "a b"}

\* The keys given to set_public_key: the oracle's own key with and without
\* its prefix, and the key of somebody else.
PublicKeys == {"0xP1", "P1", "0xP2"}

\* The texts given to decrypt: ciphertexts for the oracle's key, ciphertexts
\* for another key, and texts that are no ciphertext.
Ciphertexts ==
    {"enc:" \o x : x \in Plaintexts} \cup {"enc2:" \o x : x \in Plaintexts}
        \cup {"", "not base64!"}

\* One call on the manager: what was called, with what, on which state, and
\* what came back.
CmCall(op, arg, before, result) ==
    [op |-> op, arg |-> arg, before |-> before, result |-> result]

NoCall == CmCall("none", "", NewCryptoManager, Returns(PyNone))

\* initialize lines 31-32 against 38-39: derive_key is called only when
\* _initialized is not set.
DeriveCalls(self, dstack) == IF ~self.initialized /\ dstack = "key" THEN 1 ELSE 0

CmInitialize ==
    /\ \E dstack \in {"key", "fails"} :
          /\ crypto_manager' = CryptoManager_initialize(crypto_manager, dstack)
          /\ cmDerived' = cmDerived + DeriveCalls(crypto_manager, dstack)
          /\ cmCall' = CmCall("initialize", dstack, crypto_manager,
                              IF ~crypto_manager.initialized /\ dstack = "fails"
                              THEN Raises("derive_key failed")
                              ELSE Returns(PyNone))
    /\ UNCHANGED <<bridgeVars, offlineVars, configVars, apiVars, initVars>>

CmSetPublicKey ==
    /\ \E public_key \in PublicKeys :
          /\ crypto_manager' = set_public_key(crypto_manager, public_key)
          /\ cmCall' = CmCall("set_public_key", public_key, crypto_manager,
                              Returns(PyNone))
    /\ UNCHANGED cmDerived
    /\ UNCHANGED <<bridgeVars, offlineVars, configVars, apiVars, initVars>>

CmEncrypt ==
    /\ \E data \in Plaintexts :
          cmCall' = CmCall("encrypt", data, crypto_manager,
                           CryptoManager_encrypt_for_contract(crypto_manager, data))
    /\ UNCHANGED <<crypto_manager, cmDerived>>
    /\ UNCHANGED <<bridgeVars, offlineVars, configVars, apiVars, initVars>>

CmDecrypt ==
    /\ \E encrypted_data_b64 \in Ciphertexts :
          cmCall' = CmCall("decrypt", encrypted_data_b64, crypto_manager,
                           CryptoManager_decrypt_from_contract(crypto_manager,
                                                               encrypted_data_b64))
    /\ UNCHANGED <<crypto_manager, cmDerived>>
    /\ UNCHANGED <<bridgeVars, offlineVars, configVars, apiVars, initVars>>

(***************************************************************************)
(* ApiServer (services/api_server.py)                                      *)
(***************************************************************************)
\* One HTTP response: the route, the status, and the fields of its body.
ApiResp(route, status, crypto_initialized, address, public_key, text) ==
    [route |-> route, status |-> status,
     crypto_initialized |-> crypto_initialized,
     address |-> address, public_key |-> public_key, text |-> text]

NoApiResp == ApiResp("none", 0, FALSE, "", "", "")

\* A /keys handler that stores the public key it derived in the manager.
CodecCachingKey(self) ==
    CryptoManager(self.private_key,
                  IF self.private_key # PyNone THEN PublicOf(self.private_key)
                  ELSE self.public_key,
                  self.address, self.initialized)

\* get_key_info derives the public key into a local and assigns nothing to
\* the manager.
CodecAfterKeys(self) == self

\* GET /
root(self) == ApiResp("/", 200, self.initialized, "", "", "online")

\* GET /health
health_check(self) == ApiResp("/health", 200, self.initialized, "", "", "ok")

\* GET /keys
get_key_info(self) ==
    IF ~self.initialized THEN ApiResp("/keys", 200, FALSE, "", "", "")
    ELSE ApiResp("/keys", 200, self.initialized,
                 IF self.address = PyNone THEN "" ELSE self.address,
                 IF self.private_key # PyNone THEN PublicOf(self.private_key)
                 ELSE "",
                 "")

\* GET /encrypt/{value}: the HTTPException(503) is raised inside the try
\* whose "except Exception" turns every exception into a 500.
encrypt(self, value) ==
    IF ~self.initialized
    THEN ApiResp("/encrypt", 500, FALSE, "", "", "Failed to encrypt value")
    ELSE IF CryptoManager_encrypt_for_contract(self, value).raised
    THEN ApiResp("/encrypt", 500, TRUE, "", "", "Failed to encrypt value")
    ELSE ApiResp("/encrypt", 200, TRUE, "", "",
                 CryptoManager_encrypt_for_contract(self, value).value)

HandleRoot ==
    /\ apiResp' = root(crypto_manager)
    /\ UNCHANGED <<bridgeVars, offlineVars, configVars, codecVars, initVars>>

HandleHealth ==
    /\ apiResp' = health_check(crypto_manager)
    /\ UNCHANGED <<bridgeVars, offlineVars, configVars, codecVars, initVars>>

HandleKeys ==
    /\ apiResp' = get_key_info(crypto_manager)
    /\ crypto_manager' = CodecAfterKeys(crypto_manager)
    /\ UNCHANGED <<bridgeVars, offlineVars, configVars, cmCall, cmDerived, initVars>>

HandleEncrypt ==
    /\ \E value \in Plaintexts : apiResp' = encrypt(crypto_manager, value)
    /\ UNCHANGED <<bridgeVars, offlineVars, configVars, codecVars, initVars>>

\* The steps of the control-plane worker (the asyncio task running uvicorn).
ControlPlane ==
    \/ HandleRoot
    \/ HandleHealth
    \/ HandleKeys
    \/ HandleEncrypt

(***************************************************************************)
(* Specifications                                                          *)
(***************************************************************************)

BridgeInit ==
    /\ height = 0
    /\ chainEvents = <<>>
    /\ mined = 0
    /\ initialized = FALSE
    /\ last_processed_block = 0
    /\ initCursor = 0
    /\ pc = "init"
    /\ current_block = 0
    /\ events = <<>>
    /\ idx = 1
    /\ cycleStart = 0
    /\ cycleQueried = FALSE
    /\ cycleInvoked = <<>>
    /\ cycleOverlap = FALSE
    /\ pstate = [e \in EventIds |-> "idle"]
    /\ invoked = [e \in EventIds |-> 0]
    /\ sent = [e \in EventIds |-> 0]
    /\ broadcast = <<>>
    /\ raised = {}
    /\ timedOut = {}
    /\ tx = NoTx
    /\ waited = 0

ExtractOff ==
    /\ exPc = "off"
    /\ exFields = <<>>
    /\ exResp = NoResp
    /\ exOut = NoOut

EncodeOff ==
    /\ enPc = "off"
    /\ enData = NoData
    /\ enOut = EncodeRaised

ConditionOff ==
    /\ vcPc = "off"
    /\ vcField = Field("", "", NoCondition)
    /\ vcValue = NoneV
    /\ vcOut = NoVerify

RequestOff ==
    /\ rqPc = "off"
    /\ rqReq = NoRequest
    /\ rqOut = NoRequest
    /\ rqLog = <<>>
    /\ rqCalls = 0
    /\ rqOutcome = NoOutcome
    /\ rqResp = NoResp
    /\ rqPayload = TextBytes("")
    /\ rqSubmit = NoSubmit

\* The configuration main() starts the bridge with.
Configured ==
    /\ provider_url = "http://localhost:8545"
    /\ oracle_address = "0xOracle"

\* BlockchainService(provider_url, oracle_address): either may be missing
\* (an empty --provider with no WEB3_PROVIDER setting, no address).
AnyConfig ==
    /\ provider_url \in {"http://localhost:8545", ""}
    /\ oracle_address \in {"0xOracle", ""}

InitOff ==
    /\ reads = 0
    /\ pubkeyCheck = "none"
    /\ initHeight = 0

\* The manager when main() starts the two workers: initialize() has run.
CodecStarted ==
    /\ crypto_manager = CryptoManager_initialize(NewCryptoManager, "key")
    /\ cmCall = NoCall
    /\ cmDerived = DeriveCalls(NewCryptoManager, "key")

ApiOff == apiResp = NoApiResp

\* What the pipeline stages need of the service around them.
ServiceOff ==
    /\ Configured
    /\ InitOff
    /\ CodecStarted
    /\ ApiOff

Init ==
    /\ BridgeInit
    /\ ConditionOff
    /\ AnyConfig
    /\ InitOff
    /\ CodecStarted
    /\ ApiOff
    /\ ExtractOff
    /\ EncodeOff
    /\ RequestOff

\* The steps of the poll worker (the asyncio task running oracle_loop).
Worker ==
    \/ initialize
    \/ PollStart
    \/ PollGetLogs
    \/ PollNextEvent
    \/ PollFinish
    \/ Sleep
    \/ \E e \in EventIds : Fetch(e)
    \/ \E e \in EventIds : Process(e)
    \/ \E e \in EventIds : SubmitBuild(e)
    \/ \E e \in EventIds : SubmitSend(e)
    \/ \E e \in EventIds : WaitTick(e)
    \/ \E e \in EventIds : WaitReceipt(e)
    \/ \E e \in EventIds : WaitTimeout(e)

Next ==
    \/ ChainAdvance
    \/ Worker

Spec == Init /\ [][Next]_vars

\* The event loop always runs the poll worker when it can take a step.
FairSpec == Init /\ [][Next]_vars /\ WF_vars(Worker)

ExtractInit ==
    /\ BridgeInit
    /\ ConditionOff
    /\ ServiceOff
    /\ exPc = "ready"
    /\ exFields \in FieldLists
    /\ exResp \in Responses
    /\ exOut = NoOut
    /\ EncodeOff
    /\ RequestOff

ExtractNext == DoExtract

ExtractSpec == ExtractInit /\ [][ExtractNext]_vars

EncodeInit ==
    /\ BridgeInit
    /\ ConditionOff
    /\ ServiceOff
    /\ ExtractOff
    /\ enPc = "ready"
    /\ enData \in ExtractedDatas
    /\ enOut = EncodeRaised
    /\ RequestOff

EncodeNext == DoEncode

EncodeSpec == EncodeInit /\ [][EncodeNext]_vars

RequestInit ==
    /\ BridgeInit
    /\ ConditionOff
    /\ ServiceOff
    /\ ExtractOff
    /\ EncodeOff
    /\ rqPc = "ready"
    /\ rqReq \in Requests
    /\ rqOut = NoRequest
    /\ rqLog = <<>>
    /\ rqCalls = 0
    /\ rqOutcome = NoOutcome
    /\ rqResp = NoResp
    /\ rqPayload = TextBytes("")
    /\ rqSubmit = NoSubmit

RequestNext ==
    \/ DoResolve
    \/ DoHttp
    \/ DoProcess
    \/ DoSubmit

RequestSpec == RequestInit /\ [][RequestNext]_vars

\* The manager on its own, from construction, with the routes that read it.
ConditionInit ==
    /\ BridgeInit
    /\ ServiceOff
    /\ ExtractOff
    /\ EncodeOff
    /\ RequestOff
    /\ vcPc = "ready"
    /\ vcField \in ConditionFields
    /\ vcValue \in ConditionInputs
    /\ vcOut = NoVerify

ConditionNext == DoVerify

ConditionSpec == ConditionInit /\ [][ConditionNext]_vars

CodecInit ==
    /\ BridgeInit
    /\ ConditionOff
    /\ Configured
    /\ InitOff
    /\ crypto_manager = NewCryptoManager
    /\ cmCall = NoCall
    /\ cmDerived = 0
    /\ ApiOff
    /\ ExtractOff
    /\ EncodeOff
    /\ RequestOff

CodecNext ==
    \/ CmInitialize
    \/ CmSetPublicKey
    \/ CmEncrypt
    \/ CmDecrypt
    \/ ControlPlane

CodecSpec == CodecInit /\ [][CodecNext]_vars

\* The chain heights explored together with the control plane.
MaxServiceHeight == 2

\* The two workers main() gathers: the poll worker and the control plane.
ServiceNext ==
    \/ Next /\ height' <= MaxServiceHeight
    \/ ControlPlane

ServiceSpec == Init /\ [][ServiceNext]_vars

(***************************************************************************)
(* Properties of the chain bridge                                          *)
(***************************************************************************)
IsDecodable(e) == chainEvents[e].decodable

\* A poll cycle that found new blocks, got its logs and ran to its end.
CycleCompleted ==
    /\ pc = "sleep"
    /\ cycleQueried
    /\ current_block > cycleStart

\* C1 as stated: in a completed poll cycle over new blocks the callback is
\* invoked exactly once for every returned event, in the returned order, also
\* for an event whose decoding raises, and the cursor ends at the height read
\* at the start of the cycle.
C1_EveryReturnedEventInvoked ==
    CycleCompleted =>
        /\ cycleInvoked = events
        /\ last_processed_block = current_block

\* C1 amended: in a completed poll cycle over new blocks the callback is
\* invoked exactly once for every returned event whose decoding succeeds and
\* not at all for one whose decoding raises, in the returned (ascending block)
\* order, and the cursor ends at the height read at the start of the cycle,
\* whatever failed inside the callbacks.
C1_DecodedEventsInvokedOnce ==
    CycleCompleted =>
        /\ cycleInvoked = SelectSeq(events, IsDecodable)
        /\ \A i \in 1..Len(events) : \A j \in 1..Len(events) :
              i < j => chainEvents[events[i]].block <= chainEvents[events[j]].block
        /\ last_processed_block = current_block

\* Two events in range: the decoding of the first raises, the pipeline of the
\* second fails, and the cycle still ends with the cursor at the height read.
C1_Witness ==
    /\ CycleCompleted
    /\ Len(events) = 2
    /\ ~IsDecodable(events[1])
    /\ cycleInvoked = <<events[2]>>
    /\ pstate[events[2]] = "failed"
    /\ last_processed_block = current_block

\* C2: at most one fulfill transaction is ever broadcast for a request event,
\* over any sequence of poll cycles and failures.
C2_NoDuplicateSubmission ==
    \A e \in EventIds : sent[e] <= 1

C2_Witness ==
    \E e \in EventIds :
        /\ sent[e] = 1
        /\ e \in timedOut
        /\ CycleCompleted
        /\ cycleStart >= chainEvents[e].block

\* C3: every decodable request event emitted above the initial cursor
\* eventually has a fulfill transaction broadcast for it.
C3_NoLostSubmission ==
    \A e \in EventIds :
        [](( /\ initialized
             /\ e <= Len(chainEvents)
             /\ chainEvents[e].decodable
             /\ chainEvents[e].block > initCursor ) => <>(sent[e] >= 1))

\* C4: an event whose pipeline invocation failed was invoked exactly once, and
\* once its poll cycle is over the cursor is at or past its block, so no later
\* cycle invokes the pipeline for it again.
C4_FailedEventNotRetried ==
    \A e \in EventIds :
        pstate[e] = "failed" =>
            /\ invoked[e] = 1
            /\ pc # "loop" => last_processed_block >= chainEvents[e].block

C4_Witness ==
    \E e \in EventIds :
        /\ pstate[e] = "failed"
        /\ sent[e] = 0
        /\ CycleCompleted
        /\ cycleStart >= chainEvents[e].block

\* C5: a poll cycle whose height read is not above the cursor makes no log
\* query, invokes no callback and leaves the cursor unchanged.
C5_NoNewBlockIsNoOp ==
    (pc = "sleep" /\ current_block <= cycleStart) =>
        /\ ~cycleQueried
        /\ cycleInvoked = <<>>
        /\ last_processed_block = cycleStart

C5_Witness ==
    /\ pc = "sleep"
    /\ current_block = cycleStart
    /\ last_processed_block = cycleStart
    /\ initCursor < cycleStart

\* C6: every built transaction has maxPriorityFeePerGas <= maxFeePerGas and
\* maxFeePerGas >= the (positive) base fee it was computed from.
C6_FeeFieldsOrdered ==
    tx.id # 0 =>
        /\ tx.base > 0
        /\ tx.prio <= tx.maxFee
        /\ tx.maxFee >= tx.base

C6_Witness ==
    /\ tx.id # 0
    /\ tx.prio = PriorityCapWei
    /\ tx.maxFee > tx.base
    /\ pstate[tx.id] = "wait"

\* C7: while submit_response waits for the receipt of the one transaction it
\* broadcast, the wait is below 60 s; an event whose wait timed out had
\* submit_response raise to its caller, its pipeline ended as failed, and it
\* has exactly one broadcast transaction (no resend).
C7_TimeoutRaisesWithoutResend ==
    \A e \in EventIds :
        /\ pstate[e] = "wait" =>
              /\ waited < ReceiptTimeout
              /\ sent[e] = 1
              /\ tx.id = e
        /\ e \in timedOut =>
              /\ e \in raised
              /\ pstate[e] = "failed"
              /\ sent[e] = 1

C7_Witness ==
    \E e \in EventIds :
        /\ e \in timedOut
        /\ e \in raised
        /\ sent[e] = 1
        /\ pc = "poll"

\* C8: at most one pipeline invocation is in flight at any moment, it is the
\* one of the event the for loop stands at, and no callback ever started
\* while another was still in flight.
C8_SequentialPipelines ==
    /\ Cardinality({e \in EventIds : pstate[e] \in Running}) <= 1
    /\ ~cycleOverlap
    /\ \A e \in EventIds :
          pstate[e] \in Running =>
              /\ pc = "loop"
              /\ idx > 1
              /\ events[idx - 1] = e

C8_Witness ==
    /\ Len(cycleInvoked) = 2
    /\ pstate[cycleInvoked[1]] \in {"done", "failed"}
    /\ pstate[cycleInvoked[2]] \in Running

(***************************************************************************)
(* Properties of _extract_data                                             *)
(***************************************************************************)
\* C9, for responses with success = true: _extract_data returns a result
\* list with exactly one entry per response field, entry i carrying the path
\* of field i, also when some fields fail to extract.
C9_OneResultPerField ==
    (exPc = "done" /\ exResp.success) =>
        /\ exOut.returned
        /\ Len(exOut.results) = Len(exFields)
        /\ \A k \in 1..Len(exFields) : exOut.results[k].path = exFields[k].path

\* C10: for a response with success = false _extract_data returns
\* success = false with the response's error, and processes no field: no
\* result, no path query, no condition evaluation, no decryption.
C10_FailedResponseShortCircuits ==
    (exPc = "done" /\ ~exResp.success) =>
        /\ exOut.returned
        /\ ~exOut.success
        /\ exOut.error = exResp.error
        /\ exOut.results = <<>>
        /\ exOut.pathEvals = 0
        /\ exOut.condEvals = 0
        /\ exOut.decrypts = 0

C10_Witness ==
    /\ exPc = "done"
    /\ ~exResp.success
    /\ exResp.kind = "json"
    /\ Len(exFields) = 2
    /\ has_condition(exFields[1])
    /\ exFields[1].condition.encrypted
    /\ exOut.returned
    /\ ~exOut.success
    /\ exOut.error = "Request failed with status 404"

\* The fields of a structured, successful response whose path parses and
\* matches at least one node.
Matched(k) ==
    /\ ~ParseRaises(exFields[k].path)
    /\ Find(exResp.doc, exFields[k].path) # <<>>

StructuredDone == exPc = "done" /\ exResp.success /\ exResp.kind = "json"

\* C11: for a structured response with success = true, _extract_data returns
\* with success = true; a field whose path matches nothing or whose
\* evaluation raises gets value None and type_hint None, and every other
\* field still gets its own result (a type hint, or the JSON null it
\* matched).
C11_FailingFieldYieldsNull ==
    StructuredDone =>
        /\ exOut.returned
        /\ exOut.success
        /\ Len(exOut.results) = Len(exFields)
        /\ \A k \in 1..Len(exFields) :
              IF Matched(k)
              THEN \/ exOut.results[k].type_hint # PyNone
                   \/ Find(exResp.doc, exFields[k].path)[1] = NoneV
              ELSE /\ exOut.results[k].value = NoneV
                   /\ exOut.results[k].type_hint = PyNone

C11_Witness ==
    /\ StructuredDone
    /\ Len(exFields) = 2
    /\ \/ ParseRaises(exFields[1].path)
       \/ exFields[1].path = "missing"
    /\ exFields[2].path = "a.b"
    /\ exOut.returned
    /\ exOut.results[1].value = NoneV
    /\ exOut.results[2].value = IntV(42)
    /\ exOut.results[2].type_hint = "uint256"

\* C12: a field with a condition (non-empty operator) whose path matches gets
\* a boolean result with type_hint "bool" whatever its responseType is, and
\* operator "gt" with the plain condition value "10" on the extracted value
\* 42 gives true.
C12_ConditionOutcomeIsBool ==
    StructuredDone =>
        \A k \in 1..Len(exFields) :
            (Matched(k) /\ has_condition(exFields[k])) =>
                /\ exOut.returned
                /\ exOut.results[k].type_hint = "bool"
                /\ exOut.results[k].value.t = "bool"
                /\ ( /\ exFields[k].condition.operator = "gt"
                     /\ exFields[k].condition.value = "10"
                     /\ ~exFields[k].condition.encrypted
                     /\ Find(exResp.doc, exFields[k].path)[1] = IntV(42) )
                   => exOut.results[k].value = BoolV(TRUE)

\* The response types for which _convert_to_type converts both sides of a
\* comparison: integer, boolean, string, address and bytes types.
Coerces(responseType) ==
    \/ Contains("int", Lower(responseType))
    \/ Lower(responseType) \in {"bool", "boolean", "string", "address"}
    \/ StartsWith(Lower(responseType), "bytes")

\* C12, amended: a field with a condition (non-empty operator) whose path
\* matches gets a boolean result with type_hint "bool" whatever its
\* responseType is; operator "gt" with the plain condition value "10" on the
\* extracted value 42 gives true when the responseType is an integer,
\* boolean, string, address or bytes type, and false for any other
\* responseType.
C12_ConditionOutcomeByType ==
    StructuredDone =>
        \A k \in 1..Len(exFields) :
            (Matched(k) /\ has_condition(exFields[k])) =>
                /\ exOut.returned
                /\ exOut.results[k].type_hint = "bool"
                /\ exOut.results[k].value.t = "bool"
                /\ ( /\ exFields[k].condition.operator = "gt"
                     /\ exFields[k].condition.value = "10"
                     /\ ~exFields[k].condition.encrypted
                     /\ Find(exResp.doc, exFields[k].path)[1] = IntV(42) )
                   => exOut.results[k].value = BoolV(Coerces(exFields[k].responseType))

C12_Witness ==
    /\ StructuredDone
    /\ exResp.doc = 1
    /\ Len(exFields) = 2
    /\ exFields[1] = Field("a.b", "uint256", Cond("gt", "10", FALSE))
    /\ exFields[2] = Field("a.b", "object", Cond("gt", "10", FALSE))
    /\ exOut.returned
    /\ exOut.results[1].value = BoolV(TRUE)
    /\ exOut.results[1].type_hint = "bool"
    /\ exOut.results[2].value = BoolV(FALSE)
    /\ exOut.results[2].type_hint = "bool"

\* C13: a matched field without a condition carries the first matched value
\* unchanged, with the type hint of its shape: "bool" for a boolean,
\* "uint256" for an integer >= 0, "int256" for a negative integer and for a
\* float, "string", "array" for a list and "object" for a dict.
C13_TypeHintFromShape ==
    StructuredDone =>
        \A k \in 1..Len(exFields) :
            (Matched(k) /\ ~has_condition(exFields[k])) =>
                LET v == Find(exResp.doc, exFields[k].path)[1]
                    r == exOut.results[k]
                IN  /\ exOut.returned
                    /\ r.value = v
                    /\ v.t = "bool" => r.type_hint = "bool"
                    /\ (v.t = "int" /\ v.i >= 0) => r.type_hint = "uint256"
                    /\ (v.t = "int" /\ v.i < 0) => r.type_hint = "int256"
                    /\ v.t = "float" => r.type_hint = "int256"
                    /\ v.t = "str" => r.type_hint = "string"
                    /\ v.t = "list" => r.type_hint = "array"
                    /\ v.t = "dict" => r.type_hint = "object"

C13_Witness ==
    /\ StructuredDone
    /\ exResp.doc = 1
    /\ Len(exFields) = 2
    /\ exFields[1] = Field("a.b", "uint256", NoCondition)
    /\ exFields[2] = Field("items[*]", "bool", NoCondition)
    /\ exOut.returned
    /\ exOut.results[1].value = IntV(42)
    /\ exOut.results[1].type_hint = "uint256"
    /\ exOut.results[2].value = BoolV(TRUE)
    /\ exOut.results[2].type_hint = "bool"

\* C14: for a successful response whose body is a plain string,
\* _extract_data returns success = true with one result per field, each with
\* the raw string as value and type_hint "string", and no path query is made.
C14_PlainStringBody ==
    (exPc = "done" /\ exResp.success /\ exResp.kind = "str") =>
        /\ exOut.returned
        /\ exOut.success
        /\ Len(exOut.results) = Len(exFields)
        /\ \A k \in 1..Len(exOut.results) :
              /\ exOut.results[k].value = StrV(exResp.text)
              /\ exOut.results[k].type_hint = "string"
        /\ exOut.pathEvals = 0

(***************************************************************************)
(* Properties of _encode_data                                              *)
(***************************************************************************)
\* C15: for an ExtractedData with success = false _encode_data returns the
\* UTF-8 bytes of the error message, the bytes of "Unknown error" when there
\* is no message, and makes no ABI encoding.
C15_FailureEncodesErrorText ==
    (enPc = "done" /\ ~enData.success) =>
        /\ enOut.returned
        /\ enOut.bytes.kind = "text"
        /\ enData.error \notin {PyNone, ""} => enOut.bytes.text = enData.error
        /\ enData.error \in {PyNone, ""} => enOut.bytes.text = "Unknown error"
        /\ enOut.abiCalls = 0

C15_Witness ==
    /\ enPc = "done"
    /\ ~enData.success
    /\ enData.error = "boom"
    /\ enData.results # <<>>
    /\ enOut.returned
    /\ enOut.bytes = TextBytes("boom")

\* The default the encoder substitutes for a null value of a type.
DefaultOf(type) ==
    CASE type = "bool" -> BoolV(FALSE)
      [] type \in {"uint256", "int256"} -> IntV(0)
      [] type = "string" -> StrV("")
      [] type \in {"array", "object"} -> ListV(0, "[]")
      [] OTHER -> BytesV("")

BoolThenNullUint == <<Result(BoolV(TRUE), "bool"), Result(NoneV, "uint256")>>

\* C16: when _encode_data reaches the ABI encoder, every null value was
\* replaced by the default of its type (false, 0, "", the empty list, empty
\* bytes), and the results [(bool, true), (uint256, null)] are ABI-encoded as
\* (true, 0).
C16_NullReplacedByDefault ==
    (enPc = "done" /\ enData.success /\ enOut.returned) =>
        /\ Len(enOut.prepared) = Len(enData.results)
        /\ \A k \in 1..Len(enData.results) :
              enData.results[k].value = NoneV =>
                  enOut.prepared[k] = DefaultOf(HintOrBytes(enData.results[k].type_hint))
        /\ enData.results = BoolThenNullUint =>
              /\ enOut.bytes.kind = "abi"
              /\ enOut.bytes.types = <<"bool", "uint256">>
              /\ enOut.bytes.values = <<BoolV(TRUE), IntV(0)>>

C16_Witness ==
    /\ enPc = "done"
    /\ enData.success
    /\ enData.results = BoolThenNullUint
    /\ enOut.returned
    /\ enOut.bytes.kind = "abi"
    /\ enOut.bytes.values[2] = IntV(0)

\* C17: for every ExtractedData _encode_data returns bytes and never raises,
\* and when the ABI encoding fails the bytes are the text of a message
\* starting with "Encoding error: ".
C17_EncodeNeverRaises ==
    enPc = "done" =>
        /\ enOut.returned
        /\ \/ enOut.bytes.kind = "abi"
           \/ ~enData.success
           \/ StartsWith(enOut.bytes.text, "Encoding error: ")

(***************************************************************************)
(* Properties of the confidential fields of a request                      *)
(***************************************************************************)
\* The plaintext of a ciphertext "enc:<plaintext>".
PlainOf(ciphertext) == SubSeq(ciphertext, 5, Len(ciphertext))

\* A header or query parameter of the processed request against its input.
KeyValueResolved(in, out) ==
    /\ out.key = in.key
    /\ out.value = (IF in.encrypted THEN PlainOf(in.value) ELSE in.value)
    /\ ~out.encrypted

\* C18: when _process_encrypted_fields returns, the url, the body, every
\* header and every query parameter that was flagged encrypted holds the
\* plaintext with the flag cleared, and every unflagged one has the key, the
\* value and the (false) flag of the input, at the same position.
C18_FlaggedFieldsDecrypted ==
    rqPc = "resolved" =>
        /\ rqOut.url = (IF rqReq.urlEncrypted THEN PlainOf(rqReq.url) ELSE rqReq.url)
        /\ ~rqOut.urlEncrypted
        /\ rqOut.body = (IF rqReq.bodyEncrypted THEN PlainOf(rqReq.body) ELSE rqReq.body)
        /\ ~rqOut.bodyEncrypted
        /\ Len(rqOut.headers) = Len(rqReq.headers)
        /\ \A k \in 1..Len(rqReq.headers) :
              KeyValueResolved(rqReq.headers[k], rqOut.headers[k])
        /\ Len(rqOut.queryParams) = Len(rqReq.queryParams)
        /\ \A k \in 1..Len(rqReq.queryParams) :
              KeyValueResolved(rqReq.queryParams[k], rqOut.queryParams[k])

C18_Witness ==
    /\ rqPc = "resolved"
    /\ rqReq.urlEncrypted
    /\ rqReq.bodyEncrypted
    /\ Len(rqReq.headers) = 2
    /\ ~rqReq.headers[1].encrypted
    /\ rqReq.headers[2].encrypted
    /\ Len(rqReq.queryParams) = 2
    /\ rqOut.url = "https://api.test/x"
    /\ rqOut.headers[1] = rqReq.headers[1]
    /\ rqOut.headers[2] = KeyValue("Authorization", "Bearer t0ken", FALSE)
    /\ rqOut.queryParams[2] = KeyValue("key", "s3cret", FALSE)

\* C19: _process_encrypted_fields makes no decryption of a condition value
\* and returns every response field with the condition value and encrypted
\* flag of the input.
C19_ConditionsUntouchedByResolve ==
    /\ rqPc = "resolved" => rqOut.responseFields = rqReq.responseFields
    /\ rqCalls = 0 => \A k \in 1..Len(rqLog) : rqLog[k].loc # "condition"

\* The number of decrypt_from_contract calls made for one value.
Decryptions(loc, k) ==
    Cardinality({j \in 1..Len(rqLog) : rqLog[j].loc = loc /\ rqLog[j].k = k})

\* The condition of field k was compared with an extracted value.
ConditionChecked(k) ==
    /\ rqPc = "processed"
    /\ rqResp.success
    /\ rqResp.kind = "json"
    /\ has_condition(rqReq.responseFields[k])
    /\ ~ParseRaises(rqReq.responseFields[k].path)
    /\ Find(rqResp.doc, rqReq.responseFields[k].path) # <<>>

\* C20: in the processing of one event, every encrypted url, body, header
\* and query parameter of a request whose HTTP call was issued, and every
\* encrypted condition value that was compared, was decrypted exactly once.
C20_DecryptedExactlyOnce ==
    /\ rqCalls > 0 =>
          /\ rqReq.urlEncrypted => Decryptions("url", 1) = 1
          /\ rqReq.bodyEncrypted => Decryptions("body", 1) = 1
          /\ \A k \in 1..Len(rqReq.headers) :
                rqReq.headers[k].encrypted => Decryptions("header", k) = 1
          /\ \A k \in 1..Len(rqReq.queryParams) :
                rqReq.queryParams[k].encrypted => Decryptions("param", k) = 1
    /\ \A k \in 1..Len(rqReq.responseFields) :
          (ConditionChecked(k) /\ rqReq.responseFields[k].condition.encrypted)
              => Decryptions("condition", k) = 1

\* No url, body, header, query parameter or condition of the request is
\* flagged encrypted.
NoFlagSet(request) ==
    /\ ~request.urlEncrypted
    /\ ~request.bodyEncrypted
    /\ \A k \in 1..Len(request.headers) : ~request.headers[k].encrypted
    /\ \A k \in 1..Len(request.queryParams) : ~request.queryParams[k].encrypted
    /\ \A k \in 1..Len(request.responseFields) :
          ~request.responseFields[k].condition.encrypted

C21_Idempotent ==
    (rqPc = "resolved" /\ NoFlagSet(rqReq)) =>
        /\ rqOut = rqReq
        /\ _process_encrypted_fields(rqOut).returned
        /\ _process_encrypted_fields(rqOut).request = rqOut

\* C21: on a request without any encrypted flag _process_encrypted_fields
\* returns a request equal to its input, and so does a second application;
\* and no step of process_event, the resolution included, whether it returns
\* or raises, changes the request of the event.
C21_IdempotentAndInputKept ==
    /\ []C21_Idempotent
    /\ [][rqReq' = rqReq]_vars

C21_Witness ==
    /\ rqPc = "resolved"
    /\ NoFlagSet(rqReq)
    /\ Len(rqReq.headers) = 2
    /\ Len(rqReq.responseFields) = 1
    /\ has_condition(rqReq.responseFields[1])
    /\ rqOut = rqReq

\* C22: make_request returns for every way the HTTP call ends: a status
\* below 400 gives success = true with the body, a status of 400 or more
\* gives success = false with an error text and the body, a timeout or a
\* transport error (also while the body is read) gives success = false with
\* an error text and no data.
C22_FetchOutcomeClassified ==
    rqCalls > 0 =>
        LET o == rqOutcome.outcome
            bodyAttached == /\ rqResp.kind = o.body.kind
                            /\ rqResp.doc = o.body.doc
                            /\ rqResp.text = o.body.text
        IN  /\ rqOutcome.returned
            /\ (o.kind = "status" /\ o.body.kind # "unreadable" /\ o.status < 400) =>
                  /\ rqResp.success
                  /\ bodyAttached
            /\ (o.kind = "status" /\ o.body.kind # "unreadable" /\ o.status >= 400) =>
                  /\ ~rqResp.success
                  /\ rqResp.error \notin {PyNone, ""}
                  /\ bodyAttached
            /\ (o.kind \in {"timeout", "error"} \/ o.body.kind = "unreadable") =>
                  /\ ~rqResp.success
                  /\ rqResp.error \notin {PyNone, ""}
                  /\ rqResp.kind = "none"

C22_Witness ==
    /\ rqPc = "fetched"
    /\ rqOutcome.outcome.kind = "status"
    /\ rqOutcome.outcome.status = 400
    /\ rqOutcome.outcome.body.kind = "json"
    /\ ~rqResp.success
    /\ rqResp.error = "Request failed with status 400"
    /\ rqResp.kind = "json"

(***************************************************************************)
(* Properties of the CryptoManager and of the control plane                *)
(***************************************************************************)
\* C23: in a manager that initialize or set_public_key has initialized,
\* encrypt_for_contract(x) returns a ciphertext and decrypt_from_contract
\* of that ciphertext returns x, for every string x.
C23_RoundTrip ==
    crypto_manager.initialized =>
        \A x \in Plaintexts :
            LET encrypted == CryptoManager_encrypt_for_contract(crypto_manager, x)
            IN  /\ ~encrypted.raised
                /\ CryptoManager_decrypt_from_contract(crypto_manager,
                                                       encrypted.value) = Returns(x)

\* The cases of a decrypt call that must fail: the manager was not
\* initialized, it held no private key, or the text is not a ciphertext made
\* for the oracle's public key.
DecryptMustFail(call) ==
    \/ ~call.before.initialized
    \/ call.before.private_key = PyNone
    \/ call.arg \notin {ecies_encrypt(PublicOf(DerivedKey), x) : x \in Plaintexts}

\* C24: decrypt_from_contract raises, returns no plaintext and leaves the
\* manager as it was whenever the manager is uninitialized, holds no private
\* key, or is given a text that is malformed or was encrypted for another key.
C24_DecryptFailsCleanly ==
    (cmCall.op = "decrypt" /\ DecryptMustFail(cmCall)) =>
        /\ cmCall.result.raised
        /\ cmCall.result.error # PyNone
        /\ cmCall.result.value = PyNone
        /\ crypto_manager = cmCall.before

C24_Witness ==
    /\ cmCall.op = "decrypt"
    /\ cmCall.arg = "enc:s3cret"
    /\ cmCall.before.initialized
    /\ cmCall.before.private_key = PyNone
    /\ cmCall.before.public_key = "0xP1"
    /\ cmCall.result.raised
    /\ crypto_manager = cmCall.before

\* C30: GET /encrypt/{value} answers 200 with a ciphertext when the manager
\* is initialized and 503 when it is not.
C30_EncryptRouteStatus ==
    apiResp.route = "/encrypt" =>
        IF apiResp.crypto_initialized
        THEN /\ apiResp.status = 200
             /\ \E x \in Plaintexts, k \in PublicKeys :
                   apiResp.text = ecies_encrypt(k, x)
        ELSE apiResp.status = 503

(***************************************************************************)
(* Properties of initialization and of the two workers                     *)
(***************************************************************************)
ConfigMissing == provider_url = "" \/ oracle_address = ""

\* C25: with the provider URL or the oracle address missing, initialize
\* raises before any chain read: the service stays uninitialized with its
\* cursor unchanged, the only step of the loop is the one that ends it, and
\* no poll cycle ever runs.
C25_MissingConfigFailsFast ==
    /\ [](ConfigMissing =>
             /\ ~initialized
             /\ reads = 0
             /\ last_processed_block = 0
             /\ pc \in {"init", "fatal"}
             /\ ~cycleQueried
             /\ \A e \in EventIds : invoked[e] = 0)
    /\ [][(ConfigMissing /\ pc' # pc) => (pc = "init" /\ pc' = "fatal")]_vars

C25_Witness ==
    /\ provider_url = ""
    /\ oracle_address = "0xOracle"
    /\ pc = "fatal"
    /\ height > 0
    /\ reads = 0
    /\ ~initialized

\* C26: when the published key differs from the manager's own, or the getter
\* raises, initialize still completes: initialized is set, the cursor is the
\* height read, and the loop goes on to poll and never ends for that reason.
C26_KeyMismatchDoesNotHalt ==
    /\ [](pubkeyCheck \in {"mismatch", "raises"} =>
             /\ initialized
             /\ initCursor = initHeight
             /\ last_processed_block >= initHeight
             /\ pc # "fatal")
    /\ [][(pubkeyCheck = "none" /\ pubkeyCheck' \in {"mismatch", "raises"}) =>
             /\ initialized'
             /\ last_processed_block' = height
             /\ pc' = "poll"]_vars

C26_Witness ==
    /\ pubkeyCheck = "raises"
    /\ initialized
    /\ pc = "loop"
    /\ Len(events) > 0
    /\ last_processed_block = initHeight

\* A failure the loop has to survive: a poll cycle that raised (height read
\* or log query), or an event whose request or submission failed.
LoopFailure ==
    /\ initialized
    /\ \/ pc = "error_sleep"
       \/ \E e \in EventIds : pstate[e] = "failed"

\* C27: once initialized the loop never ends, and if a poll cycle, a request
\* or a submission ever fails, the loop starts poll cycles again and again.
C27_LoopSurvivesFailures ==
    /\ [](initialized => pc # "fatal")
    /\ (<>LoopFailure) => []<><<PollStart>>_vars

C27_Witness ==
    /\ initialized
    /\ pc = "error_sleep"
    /\ cycleQueried
    /\ \E e \in EventIds : pstate[e] = "failed" /\ e \in raised

\* C28: initialize sets the cursor to the chain height of that moment, the
\* first log query therefore covers the blocks above that height, and no
\* event of a block at or below that height is ever passed to the pipeline.
C28_CursorStartsAtHeight ==
    /\ [](initialized =>
             /\ initCursor = initHeight
             /\ last_processed_block >= initHeight
             /\ (pc = "loop" /\ cycleStart = initCursor) =>
                   events = get_past_events(initHeight + 1, current_block)
             /\ \A e \in 1..Len(chainEvents) :
                   chainEvents[e].block <= initHeight => invoked[e] = 0)
    /\ [][(~initialized /\ initialized') =>
             /\ last_processed_block' = height
             /\ initHeight' = height]_vars

C28_Witness ==
    /\ initialized
    /\ initHeight > 0
    /\ \E e \in 1..Len(chainEvents) :
          /\ chainEvents[e].block <= initHeight
          /\ chainEvents[e].decodable
          /\ invoked[e] = 0
    /\ \E e \in 1..Len(chainEvents) :
          /\ chainEvents[e].block > initHeight
          /\ invoked[e] = 1
    /\ CycleCompleted

\* C29: whatever the poll worker is doing, a step of a route handler leaves
\* the cursor and the manager's keys, address and flag as they were, and a
\* step that moves the cursor is a step of the poll worker.
C29_ControlPlaneReadOnly ==
    /\ [][ControlPlane =>
             /\ last_processed_block' = last_processed_block
             /\ crypto_manager' = crypto_manager]_vars
    /\ [][last_processed_block' # last_processed_block =>
             /\ Worker
             /\ apiResp' = apiResp]_vars

C29_Witness ==
    /\ apiResp.route = "/keys"
    /\ apiResp.public_key = PublicOf(DerivedKey)
    /\ crypto_manager.public_key = PyNone
    /\ crypto_manager.private_key = DerivedKey
    /\ pc = "loop"
    /\ last_processed_block > initHeight

(***************************************************************************)
(* Properties of the pipeline's last step and of the cursor                *)
(***************************************************************************)
\* C31: when make_request has returned success = false (timeout, transport
\* error, status of 400 or more) process_event still calls submit_response,
\* and the payload is the UTF-8 text of the fetch error.
C31_FetchFailureSubmitted ==
    /\ (rqPc \in {"processed", "submitted"} /\ ~rqResp.success) =>
          /\ rqResp.error \notin {PyNone, ""}
          /\ rqPayload = TextBytes(rqResp.error)
    /\ (rqPc = "submitted" /\ ~rqResp.success) =>
          /\ rqSubmit.called
          /\ rqSubmit.response_data = TextBytes(rqResp.error)
    /\ (rqPc = "failed" /\ rqCalls > 0) => rqResp.success

C31_Witness ==
    /\ rqPc = "submitted"
    /\ rqOutcome.outcome.kind = "timeout"
    /\ ~rqResp.success
    /\ rqSubmit.called
    /\ rqSubmit.response_data = TextBytes("Request timed out after 30 seconds")

\* C32: once initialized, no step lowers the cursor, whatever height a cycle
\* reads and whether the cycle completes, returns early or raises.
C32_CursorNeverDecreases ==
    /\ [](initialized => last_processed_block >= initCursor)
    /\ [][initialized => last_processed_block' >= last_processed_block]_vars

C32_Witness ==
    /\ initialized
    /\ pc = "sleep"
    /\ current_block < last_processed_block
    /\ last_processed_block > initCursor
    /\ ~cycleQueried

\* C33: every log query asks for the blocks cursor+1 .. current height, the
\* cursor moves only at the end of such a cycle and then to the height that
\* was queried, so the ranges of completed cycles follow each other without
\* gap or overlap: between cycles every decodable event above the initial
\* cursor and at or below the cursor has been passed on exactly once, and no
\* event above the cursor has.
C33_RangesContiguous ==
    /\ [](pc = "loop" =>
             /\ cycleStart = last_processed_block
             /\ current_block > cycleStart
             /\ events = get_past_events(cycleStart + 1, current_block))
    /\ [](CycleCompleted => last_processed_block = current_block)
    /\ []((initialized /\ pc # "loop") =>
             \A e \in 1..Len(chainEvents) :
                 /\ (/\ chainEvents[e].decodable
                     /\ chainEvents[e].block > initCursor
                     /\ chainEvents[e].block <= last_processed_block)
                        => invoked[e] = 1
                 /\ chainEvents[e].block > last_processed_block => invoked[e] = 0)
    /\ [][(initialized /\ last_processed_block' # last_processed_block) =>
             /\ pc = "loop"
             /\ cycleStart = last_processed_block
             /\ last_processed_block' = current_block]_vars

C33_Witness ==
    /\ CycleCompleted
    /\ cycleStart > initCursor
    /\ Len(chainEvents) = 2
    /\ chainEvents[1].block > initCursor
    /\ chainEvents[1].block <= cycleStart
    /\ chainEvents[2].block > cycleStart
    /\ invoked[1] = 1
    /\ invoked[2] = 1

\* C34: a cycle in which the height read or the log query raises leaves the
\* cursor where it was and invokes no callback; the loop sleeps, and the
\* next query starts again at that cursor + 1.
C34_FailedReadKeepsCursor ==
    /\ [](pc = "error_sleep" =>
             /\ last_processed_block = cycleStart
             /\ cycleInvoked = <<>>)
    /\ [][pc = "error_sleep" =>
             /\ last_processed_block' = last_processed_block
             /\ pc' \in {"error_sleep", "poll"}]_vars
    /\ [](pc = "loop" =>
             events = get_past_events(last_processed_block + 1, current_block))

C34_Witness ==
    /\ pc = "error_sleep"
    /\ cycleQueried
    /\ current_block > last_processed_block
    /\ \E e \in 1..Len(chainEvents) :
          /\ chainEvents[e].block > last_processed_block
          /\ chainEvents[e].block <= current_block
          /\ invoked[e] = 0

\* C35: once initialize has completed, a later call (the lazy calls of
\* poll_events, get_past_events and submit_response) changes nothing: the
\* flag stays set, nothing is read again, and the cursor moves only at the
\* end of a poll cycle, never back to the chain height of the moment.
C35_InitializeIdempotent ==
    [][initialized =>
          /\ initialized'
          /\ UNCHANGED <<initCursor, initHeight, reads, pubkeyCheck>>
          /\ last_processed_block' # last_processed_block =>
                /\ pc = "loop"
                /\ pc' = "sleep"
                /\ last_processed_block' = current_block]_vars

C35_Witness ==
    /\ initialized
    /\ \E e \in EventIds : pstate[e] = "send" /\ tx.id = e
    /\ last_processed_block < current_block
    /\ current_block < height
    /\ reads = 2

\* The events whose fetch or processing step raised: the pipeline failed
\* before submit_response was called.
FailedBeforeSubmit == {e \in EventIds : pstate[e] = "failed" /\ e \notin raised}

\* C36: submit_response runs only for the event whose callback the current
\* cycle is awaiting, after that event's fetch and its processing have both
\* returned, in that order, and never for an event whose fetch or processing
\* raised.
C36_SubmitFollowsPipeline ==
    /\ [](\A e \in EventIds :
             pstate[e] \in {"build", "send", "wait"} =>
                 /\ pc = "loop"
                 /\ idx > 1
                 /\ events[idx - 1] = e
                 /\ chainEvents[e].decodable
                 /\ invoked[e] = 1)
    /\ [](tx.id # 0 => pstate[tx.id] \in {"send", "wait"})
    /\ [](\A k \in 1..Len(broadcast) : invoked[broadcast[k].id] = 1)
    /\ [](\A e \in FailedBeforeSubmit :
             /\ sent[e] = 0
             /\ tx.id # e
             /\ \A k \in 1..Len(broadcast) : broadcast[k].id # e)
    /\ [][\A e \in EventIds :
             /\ (pstate'[e] = "process" /\ pstate[e] # "process") => pstate[e] = "fetch"
             /\ (pstate'[e] = "build" /\ pstate[e] # "build") => pstate[e] = "process"
             /\ (pstate'[e] = "send" /\ pstate[e] # "send") => pstate[e] = "build"]_vars

C36_Witness ==
    /\ Len(broadcast) = 1
    /\ broadcast[1].id = 2
    /\ pstate[2] = "wait"
    /\ 1 \in FailedBeforeSubmit
    /\ sent = <<0, 1>>

\* C37: no two transactions the bridge has broadcast carry the same nonce,
\* also when the wait for an earlier one timed out while it was pending.
C37_NoncesDistinct ==
    \A i, j \in 1..Len(broadcast) :
        i < j => broadcast[i].nonce # broadcast[j].nonce

\* A flagged url, body, header or query parameter that cannot be decrypted.
TransportDecryptFails(request) ==
    \/ request.urlEncrypted /\ ~decrypt_from_contract(request.url).ok
    \/ request.bodyEncrypted /\ ~decrypt_from_contract(request.body).ok
    \/ \E k \in 1..Len(request.headers) :
          /\ request.headers[k].encrypted
          /\ ~decrypt_from_contract(request.headers[k].value).ok
    \/ \E k \in 1..Len(request.queryParams) :
          /\ request.queryParams[k].encrypted
          /\ ~decrypt_from_contract(request.queryParams[k].value).ok

\* C38: every HTTP call make_request issues is built from a request whose
\* url, body, headers and query parameters hold the plaintexts with every
\* encrypted flag false, so no ciphertext is in the url, the headers or the
\* body on the wire; and when a flagged one of them cannot be decrypted, no
\* HTTP call is issued and submit_response is not called for the request.
C38_NoCiphertextSent ==
    /\ rqCalls > 0 =>
          LET c == rqOutcome.call
              sent_request == c.request
          IN  /\ ~sent_request.urlEncrypted
              /\ ~sent_request.bodyEncrypted
              /\ sent_request.url =
                    (IF rqReq.urlEncrypted THEN PlainOf(rqReq.url) ELSE rqReq.url)
              /\ sent_request.body =
                    (IF rqReq.bodyEncrypted THEN PlainOf(rqReq.body) ELSE rqReq.body)
              /\ Len(sent_request.headers) = Len(rqReq.headers)
              /\ \A k \in 1..Len(rqReq.headers) :
                    KeyValueResolved(rqReq.headers[k], sent_request.headers[k])
              /\ Len(sent_request.queryParams) = Len(rqReq.queryParams)
              /\ \A k \in 1..Len(rqReq.queryParams) :
                    KeyValueResolved(rqReq.queryParams[k], sent_request.queryParams[k])
              /\ ~Contains("enc:", c.url)
              /\ ~Contains("enc:", c.body)
              /\ \A key \in DOMAIN c.headers : ~Contains("enc:", c.headers[key])
    /\ TransportDecryptFails(rqReq) =>
          /\ rqCalls = 0
          /\ rqOutcome = NoOutcome
          /\ ~rqSubmit.called

C38_Witness ==
    /\ rqPc = "submitted"
    /\ rqCalls = 1
    /\ rqSubmit.called
    /\ rqReq.urlEncrypted
    /\ rqReq.bodyEncrypted
    /\ Len(rqReq.headers) = 2
    /\ rqReq.headers[2].encrypted
    /\ Len(rqReq.queryParams) = 2
    /\ rqOutcome.call.url = "https://api.test/x?page=2&key=s3cret"
    /\ rqOutcome.call.headers["Authorization"] = "Bearer t0ken"
    /\ rqOutcome.call.body = "{}"

\* C39: after a call of initialize that returned, the codec holds a private
\* key and an address, so that decrypt_from_contract does not fail for a
\* missing private key; and the initialize calls that returned have called
\* the key derivation at most once.
C39_InitializedHoldsKey ==
    /\ (cmCall.op = "initialize" /\ ~cmCall.result.raised) =>
          /\ crypto_manager.private_key # PyNone
          /\ crypto_manager.address # PyNone
          /\ \A encrypted_data_b64 \in Ciphertexts :
                CryptoManager_decrypt_from_contract(crypto_manager, encrypted_data_b64)
                    # Raises("Private key not available")
    /\ cmDerived <= 1

\* The operator names _verify_condition knows, in lower case.
KnownOperators ==
    {"eq", "equals", "neq", "not_equals", "gt", "greater_than",
     "gte", "greater_than_or_equals", "lt", "less_than",
     "lte", "less_than_or_equals", "contains", "startswith", "endswith"}

\* The field with another operator name in its condition.
WithOperator(field, operator) ==
    Field(field.path, field.responseType,
          Cond(operator, field.condition.value, field.condition.encrypted))

\* The coerced value and condition value cannot be ordered (TypeError).
Unorderable(field, value) ==
    LET condition_value == IF field.condition.encrypted
                           THEN PlainOf(field.condition.value)
                           ELSE field.condition.value
    IN  ~PyLess(_convert_to_type(value, field.responseType),
                _convert_to_type(StrV(condition_value), field.responseType)).ok

\* C40: _verify_condition returns on every input, with type_hint "bool" and
\* a boolean value; the value is false for an unknown operator, for a
\* condition value that cannot be decrypted and for an ordering of values
\* that cannot be ordered; and "GT", "gt" and "greater_than" (in any case)
\* give the same result.
C40_ConditionAlwaysBool ==
    vcPc = "done" =>
        /\ vcOut.returned
        /\ vcOut.res.type_hint = "bool"
        /\ vcOut.res.value \in {BoolV(TRUE), BoolV(FALSE)}
        /\ vcOut.res.path = vcField.path
        /\ vcField.condition.operator = "bogus" => vcOut.res.value = BoolV(FALSE)
        /\ (vcField.condition.encrypted
               /\ ~decrypt_from_contract(vcField.condition.value).ok) =>
              vcOut.res.value = BoolV(FALSE)
        /\ (/\ vcField.condition.operator \in {"gt", "GT", "greater_than",
                                                 "Greater_Than", "lte"}
            /\ Unorderable(vcField, vcValue)) =>
              vcOut.res.value = BoolV(FALSE)
        /\ vcField.condition.operator \in {"GT", "greater_than", "Greater_Than"} =>
              vcOut.res = _verify_condition(WithOperator(vcField, "gt"), vcValue).res

C40_Witness ==
    /\ vcPc = "done"
    /\ vcField.condition.operator = "GT"
    /\ vcField.condition.encrypted
    /\ vcField.responseType = "uint256"
    /\ vcValue = IntV(42)
    /\ vcOut.returned
    /\ vcOut.res.value = BoolV(TRUE)

====
